---- MODULE Spec2Model ----
(***************************************************************************)
(* A model of the aiogguf GGUF decoder: the header reader, the tagged      *)
(* value codec, the metadata and tensor-descriptor loops of                *)
(* GgufFile::from_reader, the quantization catalog and                     *)
(* TensorInfo::size_bytes.                                                 *)
(*                                                                         *)
(* The byte source is a finite sequence of bytes and a cursor.  TLC's      *)
(* integers stop at 2^31 - 1, so a decoded u16/u32/u64 is kept as a        *)
(* numeral: its base-256 digits, most significant digit first.  Val gives  *)
(* the value of a numeral that is small enough, Num the numeral of a       *)
(* small natural.                                                          *)
(***************************************************************************)
EXTENDS Integers, Sequences, FiniteSets, TLC

VARIABLES
    bytes,      \* the content of the byte source (reader), a sequence of 0..255
    pos,        \* the read cursor of the byte source, 0-based
    pc,         \* where the running operation stands
    i,          \* iterations completed by the running `for _ in 0..count` loop
    header,     \* from_reader: the decoded GgufHeader, NoHeader before
    data,       \* GgufMetadata::read: the HashMap being filled
    tensors,    \* TensorInfo::read_all: the Vec being filled
    result,     \* what the operation returned: none yet, ok, err or panic
    vt,         \* GgufValue::read: the value_type it is called with
    raw,        \* a descriptor's quantization code as read, a u32
    extents,    \* a descriptor's dimensions as read, a sequence of u64
    overflow_checks, \* whether the build checks integer overflow (debug) or wraps
    element_count,   \* size_bytes: its local element_count, <<>> before
    query,      \* GgufMetadata accessors: the key asked for
    accessor    \* GgufMetadata accessors: which accessor is called

vars == <<bytes, pos, pc, i, header, data, tensors, result, vt, raw,
          extents, overflow_checks, element_count, query, accessor>>

\* What from_reader and the value codec leave alone, and what the tensor
\* operations leave alone.
tensorVars == <<raw, extents, overflow_checks, element_count>>
fileVars == <<i, header, data>>
lookupVars == <<query, accessor>>

-----------------------------------------------------------------------------
(* Numerals                                                                *)

Reverse(s) == [k \in 1..Len(s) |-> s[Len(s) + 1 - k]]

\* An alternative decoding that reads the buffer most significant byte first.
from_be_bytes(buf) == [k \in 1..Len(buf) |-> buf[k]]

\* u16/u32/u64::from_le_bytes: buf[0] is the least significant digit.
from_le_bytes(buf) == Reverse(buf)

\* The numeral of width w (bytes) of a natural n < 2^31.
Num(n, w) ==
    [k \in 1..w |-> IF w - k > 3 THEN 0 ELSE (n \div (256 ^ (w - k))) % 256]

\* A numeral whose value is below 2^31, so that Val can compute it.
IsSmall(x) ==
    \A k \in 1..Len(x) :
        /\ (Len(x) - k > 3) => x[k] = 0
        /\ (Len(x) - k = 3) => x[k] < 128

Digit(x, j) == IF j < Len(x) THEN x[Len(x) - j] ELSE 0

\* The value of a small numeral.
Val(x) == Digit(x, 0) + 256 * Digit(x, 1) + 65536 * Digit(x, 2)
          + 16777216 * Digit(x, 3)

\* a < b for numerals of one width.
NumLess(a, b) ==
    \E k \in 1..Len(a) : a[k] < b[k] /\ \A j \in 1..(k - 1) : a[j] = b[j]

\* x + 1 modulo 256^Len(x).
NumInc(x) ==
    LET w == Len(x)
        k == CHOOSE k \in 0..w :
                 /\ k = 0 \/ x[k] # 255
                 /\ \A j \in (k + 1)..w : x[j] = 255
    IN  [j \in 1..w |-> IF j < k THEN x[j] ELSE IF j = k THEN x[j] + 1 ELSE 0]

\* iN::from_le_bytes on the unsigned numeral of the same bytes (two's complement).
Signed(x) ==
    IF x[1] >= 128
    THEN [neg |-> TRUE, mag |-> NumInc([j \in 1..Len(x) |-> 255 - x[j]])]
    ELSE [neg |-> FALSE, mag |-> x]

-----------------------------------------------------------------------------
(* Results and errors                                                      *)

Ok(v, p) == [st |-> "ok", val |-> v, pos |-> p]
Err(e, p) == [st |-> "err", err |-> e, pos |-> p]
\* A panic unwinds out of the operation: the caller gets no Result at all.
Panic(p) == [st |-> "panic", pos |-> p]

Io == [kind |-> "Io"]
InvalidMagic(m) == [kind |-> "InvalidMagic", magic |-> m]
UnsupportedVersion(v) == [kind |-> "UnsupportedVersion", version |-> v]
InvalidValueType(v) == [kind |-> "InvalidValueType", code |-> v]
InvalidQuantizationType(v) == [kind |-> "InvalidQuantizationType", code |-> v]
InvalidUtf8 == [kind |-> "InvalidUtf8"]
InvalidTensorDimensions == [kind |-> "InvalidTensorDimensions"]

-----------------------------------------------------------------------------
(* The byte source                                                         *)

\* Read::read_exact of n bytes at cursor p.  On a short read the error is
\* returned with p, the cursor where the failing read began; how far the
\* cursor then moved is unspecified (see CursorAfter).
read_exact(src, p, n) ==
    IF p + n <= Len(src)
    THEN [ok |-> TRUE, buf |-> SubSeq(src, p + 1, p + n), pos |-> p + n]
    ELSE [ok |-> FALSE, pos |-> p]

\* Where the cursor can stand once the operation ended with r: after a short
\* read_exact it is unspecified how many bytes were consumed.
CursorAfter(src, r) ==
    IF r.st = "err" /\ r.err.kind = "Io" THEN r.pos..Len(src) ELSE {r.pos}

\* size_of::<GgufValue>() and size_of::<TensorInfo>() on a 64-bit target.  The
\* layout of GgufValue is the compiler's choice (24 bytes where the String
\* capacity niche holds the discriminant); the counts decoded here are far
\* from the overflow threshold either way.
SIZE_OF_GGUF_VALUE == 32
SIZE_OF_TENSOR_INFO == 64

\* Vec::with_capacity(n) / vec![0; n] panics with "capacity overflow" when
\* n * elem_size exceeds isize::MAX = 2^63 - 1 (elem_size a power of two up to
\* 128: n >= 2^63 / elem_size, decided by the top digit of the u64 n).  A
\* smaller request is taken to succeed.
capacity_overflow(n, elem_size) == n[1] * elem_size >= 128

\* String::from_utf8: whether the bytes from index k on are well-formed UTF-8.
RECURSIVE is_utf8_from(_, _)
is_utf8_from(s, k) ==
    LET n == Len(s)
        Cont(j) == j <= n /\ s[j] >= 128 /\ s[j] <= 191
        In(j, lo, hi) == j <= n /\ s[j] >= lo /\ s[j] <= hi
        b == s[k]
    IN  IF k > n THEN TRUE
        ELSE IF b <= 127 THEN is_utf8_from(s, k + 1)
        ELSE IF b >= 194 /\ b <= 223 THEN Cont(k + 1) /\ is_utf8_from(s, k + 2)
        ELSE IF b = 224 THEN In(k + 1, 160, 191) /\ Cont(k + 2) /\ is_utf8_from(s, k + 3)
        ELSE IF (b >= 225 /\ b <= 236) \/ b = 238 \/ b = 239
             THEN Cont(k + 1) /\ Cont(k + 2) /\ is_utf8_from(s, k + 3)
        ELSE IF b = 237 THEN In(k + 1, 128, 159) /\ Cont(k + 2) /\ is_utf8_from(s, k + 3)
        ELSE IF b = 240
             THEN In(k + 1, 144, 191) /\ Cont(k + 2) /\ Cont(k + 3) /\ is_utf8_from(s, k + 4)
        ELSE IF b >= 241 /\ b <= 243
             THEN Cont(k + 1) /\ Cont(k + 2) /\ Cont(k + 3) /\ is_utf8_from(s, k + 4)
        ELSE IF b = 244
             THEN In(k + 1, 128, 143) /\ Cont(k + 2) /\ Cont(k + 3) /\ is_utf8_from(s, k + 4)
        ELSE FALSE

\* The string read with its length taken from a 4-byte field.
read_string_u32_length(src, p) ==
    LET l == read_exact(src, p, 4) IN
    IF ~l.ok THEN Err(Io, l.pos)
    ELSE LET length == from_le_bytes(l.buf) IN
         IF NumLess(Num(Len(src) - l.pos, 4), length) THEN Err(Io, l.pos)
         ELSE LET s == read_exact(src, l.pos, Val(length)) IN
              IF is_utf8_from(s.buf, 1) THEN Ok(s.buf, s.pos)
              ELSE Err(InvalidUtf8, s.pos)

\* An 8-byte little-endian length, that many bytes, String::from_utf8.  The
\* same sequence reads a string value, a metadata key and a tensor name.
read_string(src, p) ==
    LET l == read_exact(src, p, 8) IN
    IF ~l.ok THEN Err(Io, l.pos)
    ELSE LET length == from_le_bytes(l.buf) IN
         IF capacity_overflow(length, 1) THEN Panic(l.pos)
         ELSE IF NumLess(Num(Len(src) - l.pos, 8), length) THEN Err(Io, l.pos)
         ELSE LET s == read_exact(src, l.pos, Val(length)) IN
              IF is_utf8_from(s.buf, 1) THEN Ok(s.buf, s.pos)
              ELSE Err(InvalidUtf8, s.pos)

-----------------------------------------------------------------------------
(* Header Reader                                                           *)

GGUF_MAGIC == <<71, 71, 85, 70>>
SUPPORTED_VERSION == 3

NoHeader == [magic |-> <<>>]

\* GgufHeader::read with the magic compared only after the version was read.
GgufHeader_read_late_magic(src, p) ==
    LET m == read_exact(src, p, 4) IN
    IF ~m.ok THEN Err(Io, m.pos)
    ELSE LET v == read_exact(src, m.pos, 4) IN
    IF ~v.ok THEN Err(Io, v.pos)
    ELSE IF m.buf # GGUF_MAGIC THEN Err(InvalidMagic(m.buf), v.pos)
    ELSE LET version == from_le_bytes(v.buf) IN
    IF version # Num(SUPPORTED_VERSION, 4) THEN Err(UnsupportedVersion(version), v.pos)
    ELSE LET tc == read_exact(src, v.pos, 8) IN
    IF ~tc.ok THEN Err(Io, tc.pos)
    ELSE LET kc == read_exact(src, tc.pos, 8) IN
    IF ~kc.ok THEN Err(Io, kc.pos)
    ELSE Ok([magic |-> m.buf, version |-> version,
             tensor_count |-> from_le_bytes(tc.buf),
             metadata_kv_count |-> from_le_bytes(kc.buf)], kc.pos)

GgufHeader_read(src, p) ==
    LET m == read_exact(src, p, 4) IN
    IF ~m.ok THEN Err(Io, m.pos)
    ELSE IF m.buf # GGUF_MAGIC THEN Err(InvalidMagic(m.buf), m.pos)
    ELSE LET v == read_exact(src, m.pos, 4) IN
    IF ~v.ok THEN Err(Io, v.pos)
    ELSE LET version == from_le_bytes(v.buf) IN
    IF version # Num(SUPPORTED_VERSION, 4) THEN Err(UnsupportedVersion(version), v.pos)
    ELSE LET tc == read_exact(src, v.pos, 8) IN
    IF ~tc.ok THEN Err(Io, tc.pos)
    ELSE LET kc == read_exact(src, tc.pos, 8) IN
    IF ~kc.ok THEN Err(Io, kc.pos)
    ELSE Ok([magic |-> m.buf, version |-> version,
             tensor_count |-> from_le_bytes(tc.buf),
             metadata_kv_count |-> from_le_bytes(kc.buf)], kc.pos)

-----------------------------------------------------------------------------
(* Value Codec                                                             *)

GgufValueType ==
    <<"Uint8", "Int8", "Uint16", "Int16", "Uint32", "Int32", "Float32",
      "Bool", "String", "Array", "Uint64", "Int64", "Float64">>

\* TryFrom<u32> for GgufValueType matching on `value as u8`.
GgufValueType_try_from_low_byte(value) ==
    IF value[4] \in 0..12
    THEN [st |-> "ok", val |-> GgufValueType[value[4] + 1]]
    ELSE [st |-> "err", err |-> InvalidValueType(value)]

\* TryFrom<u32> for GgufValueType; a bare result, without a cursor.
GgufValueType_try_from(value) ==
    IF \E c \in 0..12 : value = Num(c, 4)
    THEN [st |-> "ok", val |-> GgufValueType[Val(value) + 1]]
    ELSE [st |-> "err", err |-> InvalidValueType(value)]

GV(t, v) == [type |-> t, v |-> v]

\* `buf[0] as i8`.
as_i8(b) == IF b >= 128 THEN b - 256 ELSE b
\* f32/f64::from_le_bytes: a float is kept as its IEEE-754 bit pattern.
as_float(buf) == [bits |-> from_le_bytes(buf)]

RECURSIVE GgufValue_read(_, _, _)
RECURSIVE read_elements(_, _, _, _, _, _)

RECURSIVE read_elements_from_one(_, _, _, _, _, _)
\* The element loop running over 1..length.
read_elements_from_one(src, p, array_type, length, k, array) ==
    IF ~NumLess(Num(k + 1, 8), length) THEN Ok(GV("Array", array), p)
    ELSE LET e == GgufValue_read(src, p, array_type) IN
         IF e.st = "ok"
         THEN read_elements_from_one(src, e.pos, array_type, length, k + 1,
                                     Append(array, e.val))
         ELSE e

\* The loop `for _ in 0..length { array.push(GgufValue::read(reader, array_type)?) }`
\* from iteration k on, array holding the elements read so far.
read_elements(src, p, array_type, length, k, array) ==
    IF ~NumLess(Num(k, 8), length) THEN Ok(GV("Array", array), p)
    ELSE LET e == GgufValue_read(src, p, array_type) IN
         IF e.st = "ok"
         THEN read_elements(src, e.pos, array_type, length, k + 1, Append(array, e.val))
         ELSE e

GgufValue_read(src, p, value_type) ==
    LET r1 == read_exact(src, p, 1)
        r2 == read_exact(src, p, 2)
        r4 == read_exact(src, p, 4)
        r8 == read_exact(src, p, 8)
    IN
    CASE value_type = "Uint8" ->
            IF r1.ok THEN Ok(GV("Uint8", r1.buf[1]), r1.pos) ELSE Err(Io, r1.pos)
      [] value_type = "Int8" ->
            IF r1.ok THEN Ok(GV("Int8", as_i8(r1.buf[1])), r1.pos) ELSE Err(Io, r1.pos)
      [] value_type = "Uint16" ->
            IF r2.ok THEN Ok(GV("Uint16", from_le_bytes(r2.buf)), r2.pos) ELSE Err(Io, r2.pos)
      [] value_type = "Int16" ->
            IF r2.ok THEN Ok(GV("Int16", Signed(from_le_bytes(r2.buf))), r2.pos) ELSE Err(Io, r2.pos)
      [] value_type = "Uint32" ->
            IF r4.ok THEN Ok(GV("Uint32", from_le_bytes(r4.buf)), r4.pos) ELSE Err(Io, r4.pos)
      [] value_type = "Int32" ->
            IF r4.ok THEN Ok(GV("Int32", Signed(from_le_bytes(r4.buf))), r4.pos) ELSE Err(Io, r4.pos)
      [] value_type = "Float32" ->
            IF r4.ok THEN Ok(GV("Float32", as_float(r4.buf)), r4.pos) ELSE Err(Io, r4.pos)
      [] value_type = "Bool" ->
            IF r1.ok THEN Ok(GV("Bool", r1.buf[1] # 0), r1.pos) ELSE Err(Io, r1.pos)
      [] value_type = "String" ->
            LET s == read_string(src, p) IN
            IF s.st = "ok" THEN Ok(GV("String", s.val), s.pos) ELSE s
      [] value_type = "Array" ->
            IF ~r4.ok THEN Err(Io, r4.pos)
            ELSE LET array_type == GgufValueType_try_from(from_le_bytes(r4.buf)) IN
            IF array_type.st # "ok" THEN Err(array_type.err, r4.pos)
            ELSE LET l == read_exact(src, r4.pos, 8) IN
            IF ~l.ok THEN Err(Io, l.pos)
            ELSE LET length == from_le_bytes(l.buf) IN
            IF capacity_overflow(length, SIZE_OF_GGUF_VALUE) THEN Panic(l.pos)
            ELSE read_elements(src, l.pos, array_type.val, length, 0, <<>>)
      [] value_type = "Uint64" ->
            IF r8.ok THEN Ok(GV("Uint64", from_le_bytes(r8.buf)), r8.pos) ELSE Err(Io, r8.pos)
      [] value_type = "Int64" ->
            IF r8.ok THEN Ok(GV("Int64", Signed(from_le_bytes(r8.buf))), r8.pos) ELSE Err(Io, r8.pos)
      [] value_type = "Float64" ->
            IF r8.ok THEN Ok(GV("Float64", as_float(r8.buf)), r8.pos) ELSE Err(Io, r8.pos)

-----------------------------------------------------------------------------
(* Quantization Catalog                                                    *)

\* enum QuantizationType, #[repr(u32)]: each variant's discriminant.
QuantizationType ==
    [F32 |-> 0, F16 |-> 1, Q4_0 |-> 2, Q4_1 |-> 3, Q5_0 |-> 6, Q5_1 |-> 7,
     Q8_0 |-> 8, Q8_1 |-> 9, Q2_K |-> 10, Q3_K |-> 11, Q4_K |-> 12,
     Q5_K |-> 13, Q6_K |-> 14, Q8_K |-> 15, IQ2_XXS |-> 16, IQ2_XS |-> 17,
     IQ3_XXS |-> 18, IQ1_S |-> 19, IQ4_NL |-> 20, IQ3_S |-> 21, IQ2_S |-> 22,
     IQ4_XS |-> 23, I8 |-> 24, I16 |-> 25, I32 |-> 26, I64 |-> 27,
     F64 |-> 28, IQ1_M |-> 29]

\* The arms of the match in TryFrom<u32> for QuantizationType.
try_from_arms ==
    <<[code |-> 0, variant |-> "F32"], [code |-> 1, variant |-> "F16"],
      [code |-> 2, variant |-> "Q4_0"], [code |-> 3, variant |-> "Q4_1"],
      [code |-> 6, variant |-> "Q5_0"], [code |-> 7, variant |-> "Q5_1"],
      [code |-> 8, variant |-> "Q8_0"], [code |-> 9, variant |-> "Q8_1"],
      [code |-> 10, variant |-> "Q2_K"], [code |-> 11, variant |-> "Q3_K"],
      [code |-> 12, variant |-> "Q4_K"], [code |-> 13, variant |-> "Q5_K"],
      [code |-> 14, variant |-> "Q6_K"], [code |-> 15, variant |-> "Q8_K"],
      [code |-> 16, variant |-> "IQ2_XXS"], [code |-> 17, variant |-> "IQ2_XS"],
      [code |-> 18, variant |-> "IQ3_XXS"], [code |-> 19, variant |-> "IQ1_S"],
      [code |-> 20, variant |-> "IQ4_NL"], [code |-> 21, variant |-> "IQ3_S"],
      [code |-> 22, variant |-> "IQ2_S"], [code |-> 23, variant |-> "IQ4_XS"],
      [code |-> 24, variant |-> "I8"], [code |-> 25, variant |-> "I16"],
      [code |-> 26, variant |-> "I32"], [code |-> 27, variant |-> "I64"],
      [code |-> 28, variant |-> "F64"], [code |-> 29, variant |-> "IQ1_M"]>>

\* TryFrom<u32> for QuantizationType taking the arm by its position in the match.
QuantizationType_try_from_by_position(value) ==
    IF IsSmall(value) /\ Val(value) < Len(try_from_arms)
    THEN [st |-> "ok", val |-> try_from_arms[Val(value) + 1].variant]
    ELSE [st |-> "err", err |-> InvalidQuantizationType(value)]

\* TryFrom<u32> for QuantizationType; a bare result, without a cursor.
QuantizationType_try_from(value) ==
    IF \E a \in 1..Len(try_from_arms) : value = Num(try_from_arms[a].code, 4)
    THEN LET a == CHOOSE a \in 1..Len(try_from_arms) :
                      value = Num(try_from_arms[a].code, 4)
         IN  [st |-> "ok", val |-> try_from_arms[a].variant]
    ELSE [st |-> "err", err |-> InvalidQuantizationType(value)]

-----------------------------------------------------------------------------
(* Metadata Store and Tensor Catalog: one iteration of each loop           *)

\* The body of the loop of GgufMetadata::read up to data.insert: the key,
\* the value-type tag, the value.
read_kv(src, p) ==
    LET key == read_string(src, p) IN
    IF key.st # "ok" THEN key
    ELSE LET t == read_exact(src, key.pos, 4) IN
    IF ~t.ok THEN Err(Io, t.pos)
    ELSE LET value_type == GgufValueType_try_from(from_le_bytes(t.buf)) IN
    IF value_type.st # "ok" THEN Err(value_type.err, t.pos)
    ELSE LET value == GgufValue_read(src, t.pos, value_type.val) IN
    IF value.st # "ok" THEN value
    ELSE Ok([key |-> key.val, value |-> value.val], value.pos)

\* The loop `for _ in 0..n_dimensions` of TensorInfo::read_all from iteration
\* k on, dimensions holding the extents read so far.
RECURSIVE read_dimensions(_, _, _, _, _)
read_dimensions(src, p, n_dimensions, k, dimensions) ==
    IF ~NumLess(Num(k, 4), n_dimensions) THEN Ok(dimensions, p)
    ELSE LET d == read_exact(src, p, 8) IN
         IF ~d.ok THEN Err(Io, d.pos)
         ELSE read_dimensions(src, d.pos, n_dimensions, k + 1,
                              Append(dimensions, from_le_bytes(d.buf)))

\* The bound of `if n_dimensions > 4`, and the same off by one.
MAX_DIMENSIONS_off_by_one == 4 + 1
MAX_DIMENSIONS == 4

\* The body of the loop of TensorInfo::read_all up to tensors.push.
read_tensor(src, p) ==
    LET name == read_string(src, p) IN
    IF name.st # "ok" THEN name
    ELSE LET n == read_exact(src, name.pos, 4) IN
    IF ~n.ok THEN Err(Io, n.pos)
    ELSE LET n_dimensions == from_le_bytes(n.buf) IN
    IF NumLess(Num(MAX_DIMENSIONS, 4), n_dimensions)
    THEN Err(InvalidTensorDimensions, n.pos)
    ELSE LET dimensions == read_dimensions(src, n.pos, n_dimensions, 0, <<>>) IN
    IF dimensions.st # "ok" THEN dimensions
    ELSE LET t == read_exact(src, dimensions.pos, 4) IN
    IF ~t.ok THEN Err(Io, t.pos)
    ELSE LET quantization_type == QuantizationType_try_from(from_le_bytes(t.buf)) IN
    IF quantization_type.st # "ok" THEN Err(quantization_type.err, t.pos)
    ELSE LET o == read_exact(src, t.pos, 8) IN
    IF ~o.ok THEN Err(Io, o.pos)
    ELSE Ok([name |-> name.val, dimensions |-> dimensions.val,
             quantization_type |-> quantization_type.val,
             offset |-> from_le_bytes(o.buf)], o.pos)

-----------------------------------------------------------------------------
(* Byte sources the decoder is run on                                      *)

\* The w-byte little-endian encoding of a natural n < 2^31.
Le(n, w) == [k \in 1..w |-> IF k > 4 THEN 0 ELSE (n \div (256 ^ (k - 1))) % 256]
\* The encoding of 2^64 - 1.
Huge == <<255, 255, 255, 255, 255, 255, 255, 255>>
\* A length-prefixed string.
Str(s) == Le(Len(s), 8) \o s

RECURSIVE Flatten(_)
Flatten(ss) == IF ss = <<>> THEN <<>> ELSE Head(ss) \o Flatten(Tail(ss))

SeqsUpTo(S, n) == UNION {[1..k -> S] : k \in 0..n}
Prefixes(f) == {SubSeq(f, 1, n) : n \in 0..Len(f)}

\* Most metadata entries and tensor descriptors a generated file holds.
MaxKv == 2
MaxTensors == 2

\* Encoded values by tag: every kind, little-endian digits that differ,
\* strings that are and are not UTF-8, arrays flat, nested, empty, with an
\* unknown element tag at depth 1 and 2, and lengths of 2^64 - 1.
Array789 == Le(4, 4) \o Le(3, 8) \o Le(7, 4) \o Le(8, 4) \o Le(9, 4)
ArrayNested ==
    Le(9, 4) \o Le(2, 8) \o (Le(4, 4) \o Le(1, 8) \o Le(7, 4))
                         \o (Le(0, 4) \o Le(2, 8) \o <<1, 2>>)
ArrayDeep ==
    Le(9, 4) \o Le(1, 8) \o (Le(9, 4) \o Le(1, 8) \o (Le(0, 4) \o Le(1, 8) \o <<5>>))

ValueSamples ==
    { [tag |-> 0, enc |-> <<200>>], [tag |-> 1, enc |-> <<200>>],
      [tag |-> 2, enc |-> <<1, 2>>], [tag |-> 3, enc |-> <<0, 128>>],
      [tag |-> 4, enc |-> Le(7, 4)], [tag |-> 4, enc |-> <<0, 0, 1, 200>>],
      [tag |-> 5, enc |-> <<255, 255, 255, 255>>],
      [tag |-> 6, enc |-> <<0, 0, 128, 63>>],
      [tag |-> 7, enc |-> <<0>>], [tag |-> 7, enc |-> <<2>>],
      [tag |-> 8, enc |-> Str(<<104, 105>>)], [tag |-> 8, enc |-> Str(<<>>)],
      [tag |-> 8, enc |-> Str(<<255>>)], [tag |-> 8, enc |-> Str(<<195, 169>>)],
      [tag |-> 8, enc |-> Huge \o <<120>>],
      [tag |-> 9, enc |-> Array789], [tag |-> 9, enc |-> ArrayNested],
      [tag |-> 9, enc |-> ArrayDeep],
      [tag |-> 9, enc |-> Le(4, 4) \o Le(0, 8)],
      [tag |-> 9, enc |-> Le(8, 4) \o Le(2, 8) \o Str(<<97>>) \o Str(<<98, 99>>)],
      [tag |-> 9, enc |-> Le(99, 4) \o Le(1, 8) \o Le(7, 4)],
      [tag |-> 9, enc |-> Le(9, 4) \o Le(1, 8) \o (Le(13, 4) \o Le(0, 8))],
      [tag |-> 9, enc |-> Le(4, 4) \o Huge \o Le(7, 4)],
      [tag |-> 10, enc |-> <<1, 0, 0, 0, 1, 0, 0, 0>>],
      [tag |-> 11, enc |-> Huge],
      [tag |-> 12, enc |-> <<0, 0, 0, 0, 0, 0, 240, 63>>],
      [tag |-> 13, enc |-> <<1>>], [tag |-> 16777216, enc |-> <<1>>] }

\* Metadata entries: key "a" or "b" with each sample value, a key that is
\* not UTF-8, a key of length 2^64 - 1.
KvSamples ==
    { Str(<<97>>) \o Le(v.tag, 4) \o v.enc : v \in ValueSamples }
    \cup { Str(<<98>>) \o Le(4, 4) \o Le(9, 4),
           Str(<<255>>) \o Le(4, 4) \o Le(7, 4),
           Huge \o <<97>> \o Le(4, 4) \o Le(7, 4) }

\* A tensor descriptor: name, n_dimensions, extents, quantization code, offset.
Tensor(name, nd, dims, q, off) ==
    Str(name) \o nd \o Flatten(dims) \o Le(q, 4) \o Le(off, 8)

TensorSamples ==
    { Tensor(<<116>>, Le(2, 4), <<Le(2, 8), Le(2, 8)>>, 2, 0),
      Tensor(<<117>>, Le(0, 4), <<>>, 0, 64),
      Tensor(<<118>>, Le(4, 4), <<Le(1, 8), Le(2, 8), Le(3, 8), Huge>>, 29, 7),
      Tensor(<<119>>, Le(5, 4), <<Le(1, 8), Le(1, 8), Le(1, 8), Le(1, 8), Le(1, 8)>>, 0, 0),
      Tensor(<<119>>, <<0, 0, 0, 1>>, <<>>, 0, 0),
      Tensor(<<120>>, Le(1, 4), <<Le(3, 8)>>, 4, 0),
      Tensor(<<120>>, Le(1, 4), <<Le(3, 8)>>, 5, 0),
      Tensor(<<120>>, Le(1, 4), <<Le(3, 8)>>, 30, 0),
      Tensor(<<255>>, Le(1, 4), <<Le(3, 8)>>, 0, 0),
      Huge \o <<116>> \o Le(0, 4) \o Le(0, 4) \o Le(0, 8) }

Magics == {GGUF_MAGIC, <<88, 71, 85, 70>>, <<71, 71, 85, 102>>}
Versions == {Le(3, 4), Le(2, 4), Le(4, 4), <<3, 0, 0, 1>>, <<0, 0, 0, 3>>}
Counts(n) == {Le(k, 8) : k \in 0..n} \cup {Huge}

Kv0 == Str(<<97>>) \o Le(4, 4) \o Le(7, 4)
Tensor0 == Tensor(<<116>>, Le(2, 4), <<Le(2, 8), Le(2, 8)>>, 2, 0)

\* Entries and descriptors that decode, to stand before a sample.
KvGood == {Kv0, Str(<<98>>) \o Le(9, 4) \o Array789, Str(<<97>>) \o Le(10, 4) \o Le(5, 8)}
TensorGood == {Tensor0, Tensor(<<117>>, Le(0, 4), <<>>, 0, 64)}

\* The sequences of at most n + 1 items: at most n of Good, then one of Last.
Runs(Good, Last, n) ==
    {<<>>} \cup UNION {{g \o <<l>> : g \in [1..k -> Good], l \in Last} : k \in 0..n}

\* Every header over one entry and one descriptor; well-formed headers over
\* runs of entries, and of descriptors; every prefix of two files.
Files ==
    { m \o v \o tc \o kc \o Kv0 \o Tensor0 :
        m \in Magics, v \in Versions, tc \in Counts(MaxTensors), kc \in Counts(MaxKv) }
    \cup { GGUF_MAGIC \o Le(3, 4) \o Le(t, 8) \o Le(Len(kvs), 8) \o Flatten(kvs)
             \o Flatten([k \in 1..t |-> Tensor0]) :
             kvs \in Runs(KvGood, KvSamples, MaxKv - 1), t \in 0..1 }
    \cup { GGUF_MAGIC \o Le(3, 4) \o Le(Len(ts), 8) \o Le(1, 8) \o Kv0 \o Flatten(ts) :
             ts \in Runs(TensorGood, TensorSamples, MaxTensors - 1) }
    \cup UNION { Prefixes(GGUF_MAGIC \o Le(3, 4) \o Le(1, 8) \o Le(1, 8) \o kv \o Tensor0) :
                   kv \in { Kv0, Str(<<97>>) \o Le(9, 4) \o ArrayNested } }

-----------------------------------------------------------------------------
(* GgufFile::from_reader                                                   *)

None == [st |-> "none"]

Init ==
    /\ bytes \in Files
    /\ pos = 0
    /\ pc = "header"
    /\ i = 0
    /\ header = NoHeader
    /\ data = <<>>
    /\ tensors = <<>>
    /\ result = None
    /\ query = ""
    /\ accessor = "none"
    /\ vt = "none"
    /\ raw = <<>>
    /\ extents = <<>>
    /\ overflow_checks = FALSE
    /\ element_count = <<>>

\* The operation ends with the failure r (`?` returns the error, a panic
\* unwinds); its locals are dropped.
Return(r) ==
    /\ pc' = "done"
    /\ result' = IF r.st = "err" THEN [st |-> "err", err |-> r.err] ELSE [st |-> "panic"]
    /\ pos' \in CursorAfter(bytes, r)
    /\ i' = 0
    /\ header' = NoHeader
    /\ data' = <<>>
    /\ tensors' = <<>>
    /\ UNCHANGED <<bytes, vt, lookupVars, tensorVars>>

\* GgufHeader::read(reader)?
ReadHeader ==
    /\ pc = "header"
    /\ LET r == GgufHeader_read(bytes, pos) IN
       IF r.st = "ok"
       THEN /\ header' = r.val
            /\ pos' = r.pos
            /\ pc' = "metadata"
            /\ UNCHANGED <<bytes, i, data, tensors, result, vt, lookupVars, tensorVars>>
       ELSE Return(r)

\* GgufMetadata::read: one iteration of `for _ in 0..kv_count`.
ReadMetadataEntry ==
    /\ pc = "metadata"
    /\ NumLess(Num(i, 8), header.metadata_kv_count)
    /\ LET r == read_kv(bytes, pos) IN
       IF r.st = "ok"
       THEN /\ data' = (r.val.key :> r.val.value) @@ data
            /\ pos' = r.pos
            /\ i' = i + 1
            /\ UNCHANGED <<bytes, pc, header, tensors, result, vt, lookupVars, tensorVars>>
       ELSE Return(r)

\* GgufMetadata::read returns Ok(Self { data }); TensorInfo::read_all starts
\* with Vec::with_capacity(tensor_count as usize).
StartTensors ==
    /\ pc = "metadata"
    /\ ~NumLess(Num(i, 8), header.metadata_kv_count)
    /\ IF capacity_overflow(header.tensor_count, SIZE_OF_TENSOR_INFO)
       THEN Return(Panic(pos))
       ELSE /\ pc' = "tensors"
            /\ i' = 0
            /\ UNCHANGED <<bytes, pos, header, data, tensors, result, vt, lookupVars, tensorVars>>

\* TensorInfo::read_all: one iteration of `for _ in 0..tensor_count`.
ReadTensor ==
    /\ pc = "tensors"
    /\ NumLess(Num(i, 8), header.tensor_count)
    /\ LET r == read_tensor(bytes, pos) IN
       IF r.st = "ok"
       THEN /\ tensors' = Append(tensors, r.val)
            /\ pos' = r.pos
            /\ i' = i + 1
            /\ UNCHANGED <<bytes, pc, header, data, result, vt, lookupVars, tensorVars>>
       ELSE Return(r)

\* TensorInfo::read_all returns Ok(tensors); from_reader returns Ok(Self { .. }).
Finish ==
    /\ pc = "tensors"
    /\ ~NumLess(Num(i, 8), header.tensor_count)
    /\ pc' = "done"
    /\ result' = [st |-> "ok",
                  file |-> [header |-> header, metadata |-> data, tensors |-> tensors]]
    /\ UNCHANGED <<bytes, pos, i, header, data, tensors, vt, lookupVars, tensorVars>>

Next == ReadHeader \/ ReadMetadataEntry \/ StartTensors \/ ReadTensor \/ Finish

Spec == Init /\ [][Next]_vars

-----------------------------------------------------------------------------
(* Claims about GgufFile::from_reader, checked under Spec                  *)

\* The numeral x is the little-endian reading of the w bytes after cursor p:
\* byte k has weight 256^(k-1).
LeDigits(x, src, p, w) == Len(x) = w /\ \A k \in 1..w : Digit(x, k - 1) = src[p + k]

\* The 4 bytes after cursor p encode the tag c < 256.
TagIs(src, p, c) ==
    src[p + 1] = c /\ src[p + 2] = 0 /\ src[p + 3] = 0 /\ src[p + 4] = 0

\* C1: from_reader returns a GgufFile only if the header, every metadata
\* entry and every tensor descriptor decoded (the file then holds
\* tensor_count descriptors), and otherwise returns an error: once it has
\* ended, its outcome is one of the two.
C1_FailFastAtomic ==
    pc = "done" =>
        \/ /\ result.st = "ok"
           /\ result.file.header.magic = <<71, 71, 85, 70>>
           /\ Num(Len(result.file.tensors), 8) = result.file.header.tensor_count
        \/ /\ result.st = "err"
           /\ result.err.kind \in {"Io", "InvalidMagic", "UnsupportedVersion",
                                   "InvalidValueType", "InvalidQuantizationType",
                                   "InvalidUtf8", "InvalidTensorDimensions"}

\* C2: 4 bytes other than "GGUF" at the cursor make the header read fail with
\* InvalidMagic carrying exactly those bytes, the cursor 4 bytes on: the
\* version and the counts are not consumed.
C2_InvalidMagic ==
    [][ (/\ pc = "header"
         /\ Len(bytes) >= pos + 4
         /\ SubSeq(bytes, pos + 1, pos + 4) # <<71, 71, 85, 70>>)
        => /\ pc' = "done"
           /\ result' = [st |-> "err",
                         err |-> [kind |-> "InvalidMagic",
                                  magic |-> SubSeq(bytes, pos + 1, pos + 4)]]
           /\ pos' = pos + 4 ]_vars

\* A file starting "GGUf" was rejected, echoing the bytes, with bytes left unread.
C2_Witness ==
    /\ pc = "done"
    /\ result.st = "err"
    /\ result.err.kind = "InvalidMagic"
    /\ result.err.magic = <<71, 71, 85, 102>>
    /\ pos = 4
    /\ Len(bytes) > 8

\* The header read of a source with a correct magic and 8 bytes or more: a
\* version other than 3 fails with UnsupportedVersion carrying the
\* little-endian version, the cursor 8 bytes on; version 3, with the bytes
\* there, reads the two counts and succeeds with the cursor size bytes on.
C3_Step(size) ==
    (/\ pc = "header"
     /\ Len(bytes) >= pos + 8
     /\ SubSeq(bytes, pos + 1, pos + 4) = <<71, 71, 85, 70>>)
    => IF SubSeq(bytes, pos + 5, pos + 8) # <<3, 0, 0, 0>>
       THEN /\ pc' = "done"
            /\ result'.st = "err"
            /\ result'.err.kind = "UnsupportedVersion"
            /\ LeDigits(result'.err.version, bytes, pos + 4, 4)
            /\ pos' = pos + 8
       ELSE Len(bytes) >= pos + size =>
            /\ pc' = "metadata"
            /\ result' = None
            /\ pos' = pos + size
            /\ Val(header'.version) = 3
            /\ LeDigits(header'.tensor_count, bytes, pos + 8, 8)
            /\ LeDigits(header'.metadata_kv_count, bytes, pos + 16, 8)

\* C3 (as amended): a version other than 3 is rejected with the cursor after
\* the version; version 3 succeeds having consumed exactly 24 bytes
\* (4 + 4 + 8 + 8), the counts read little-endian.
C3_VersionGate == [][C3_Step(24)]_vars

\* C3 (as claimed): ... and version 3 succeeds having consumed exactly 20 bytes.
C3_AsClaimed == [][C3_Step(20)]_vars

\* A version-3 header was read, its counts 2^64 - 1 and 1.
C3_Witness ==
    /\ pc = "metadata"
    /\ i = 0
    /\ pos = 24
    /\ header.tensor_count = <<255, 255, 255, 255, 255, 255, 255, 255>>
    /\ Val(header.metadata_kv_count) = 1

\* Array levels below an entry's tag that C5 looks at.
MaxDepth == 3

\* Where the tag k array levels below the entry tag at q stands: the entry
\* tag at q, an array's element tag 4 bytes on, then one every 12 bytes (an
\* element tag and a count).
TagPos(q, k) == IF k = 0 THEN q ELSE q + 4 + 12 * (k - 1)

\* The count after cursor p lets a first element be read: it is at least 1
\* and below 2^56.
CountOk(src, p) == src[p + 8] = 0 /\ \E j \in 1..7 : src[p + j] # 0

\* The stream holds, d array levels below the entry tag at q, a tag outside
\* 0..12: the d tags above it are the array tag, the counts between them let
\* the first element be read.
BadAtDepth(src, q, d) ==
    /\ Len(src) >= TagPos(q, d) + 4
    /\ ~\E c \in 0..12 : TagIs(src, TagPos(q, d), c)
    /\ \A k \in 0..(d - 1) : TagIs(src, TagPos(q, k), 9)
    /\ \A k \in 1..(d - 1) : CountOk(src, TagPos(q, k) + 4)

\* C5: a tag outside 0..12, as the tag of a metadata entry or as an element
\* tag at any array depth below it, ends decoding with InvalidValueType
\* carrying that raw code, the cursor just after the tag; and no tag in 0..12
\* is ever refused.
C5_UnknownTag ==
    [][ /\ (/\ pc = "metadata"
            /\ NumLess(Num(i, 8), header.metadata_kv_count)
            /\ read_string(bytes, pos).st = "ok")
           => \A d \in 0..MaxDepth :
                 LET q == TagPos(read_string(bytes, pos).pos, d) IN
                 BadAtDepth(bytes, read_string(bytes, pos).pos, d)
                 => /\ pc' = "done"
                    /\ result'.st = "err"
                    /\ result'.err.kind = "InvalidValueType"
                    /\ LeDigits(result'.err.code, bytes, q, 4)
                    /\ pos' = q + 4
        /\ (result'.st = "err" /\ result'.err.kind = "InvalidValueType")
           => ~(IsSmall(result'.err.code) /\ Val(result'.err.code) \in 0..12)
      ]_vars

\* Decoding ended on the unknown element tag 13 two array levels below the
\* tag of the first entry.
C5_Witness ==
    /\ pc = "done"
    /\ result.st = "err"
    /\ result.err.kind = "InvalidValueType"
    /\ Val(result.err.code) = 13
    /\ pos = 53

\* C7: a descriptor whose n_dimensions is above 4 ends read_all with
\* InvalidTensorDimensions, the cursor just after n_dimensions whatever
\* follows; and every descriptor of a decoded file has at most 4 dimensions.
C7_TooManyDimensions ==
    [][ /\ (/\ pc = "tensors"
            /\ NumLess(Num(i, 8), header.tensor_count)
            /\ read_string(bytes, pos).st = "ok"
            /\ LET q == read_string(bytes, pos).pos IN
               /\ Len(bytes) >= q + 4
               /\ \/ bytes[q + 1] > 4
                  \/ bytes[q + 2] # 0 \/ bytes[q + 3] # 0 \/ bytes[q + 4] # 0)
           => /\ pc' = "done"
              /\ result' = [st |-> "err", err |-> [kind |-> "InvalidTensorDimensions"]]
              /\ pos' = read_string(bytes, pos).pos + 4
        /\ result'.st = "ok"
           => \A k \in 1..Len(result'.file.tensors) :
                 Len(result'.file.tensors[k].dimensions) <= 4
      ]_vars

\* read_all refused a descriptor of 5 dimensions, leaving its extents,
\* quantization code and offset unread.
C7_Witness ==
    /\ pc = "done"
    /\ result.st = "err"
    /\ result.err.kind = "InvalidTensorDimensions"
    /\ bytes[pos - 3] = 5
    /\ Len(bytes) >= pos + 52

-----------------------------------------------------------------------------
(* GgufValue::read on its own: one call on a byte source, the cursor       *)
(* anywhere in it                                                          *)

\* Bytes before the value, and after it.
Lead == {<<>>, <<170, 187>>}
Trail == <<1, 2>>

\* A sample value under its own tag behind each lead, the source cut short
\* anywhere in or after the value; and the [7, 8, 9] array read as each kind.
ValueStreams ==
    UNION { { [bytes |-> l \o f, pos |-> Len(l), vt |-> GgufValueType[v.tag + 1]] :
                l \in Lead, f \in Prefixes(v.enc \o Trail) } :
              v \in {x \in ValueSamples : x.tag <= 12} }
    \cup { [bytes |-> Array789 \o Trail, pos |-> 0, vt |-> GgufValueType[c + 1]] :
             c \in 0..12 }

InitValue ==
    /\ \E s \in ValueStreams : bytes = s.bytes /\ pos = s.pos /\ vt = s.vt
    /\ pc = "value"
    /\ i = 0
    /\ header = NoHeader
    /\ data = <<>>
    /\ tensors = <<>>
    /\ result = None
    /\ query = ""
    /\ accessor = "none"
    /\ raw = <<>>
    /\ extents = <<>>
    /\ overflow_checks = FALSE
    /\ element_count = <<>>

\* GgufValue::read(reader, value_type)
DecodeValue ==
    /\ pc = "value"
    /\ LET r == GgufValue_read(bytes, pos, vt) IN
       /\ result' = IF r.st = "ok" THEN [st |-> "ok", val |-> r.val]
                    ELSE IF r.st = "err" THEN [st |-> "err", err |-> r.err]
                    ELSE [st |-> "panic"]
       /\ pos' \in CursorAfter(bytes, r)
    /\ pc' = "decoded"
    /\ UNCHANGED <<bytes, vt, lookupVars, fileVars, tensors, tensorVars>>

NextValue == DecodeValue

SpecValue == InitValue /\ [][NextValue]_vars

-----------------------------------------------------------------------------
(* Claims about GgufValue::read, checked under SpecValue                   *)

RECURSIVE EncodedSize(_)
RECURSIVE SizesUpTo(_, _)
\* The encoded size of the first k values of vs.
SizesUpTo(vs, k) == IF k = 0 THEN 0 ELSE SizesUpTo(vs, k - 1) + EncodedSize(vs[k])

\* The encoded size of a decoded value: 1/2/4/8 bytes for the fixed-width
\* kinds, 8 + length for a string, 4 + 8 + the sizes of its elements for an
\* array.
EncodedSize(v) ==
    CASE v.type \in {"Uint8", "Int8", "Bool"} -> 1
      [] v.type \in {"Uint16", "Int16"} -> 2
      [] v.type \in {"Uint32", "Int32", "Float32"} -> 4
      [] v.type \in {"Uint64", "Int64", "Float64"} -> 8
      [] v.type = "String" -> 8 + Len(v.v)
      [] v.type = "Array" -> 4 + 8 + SizesUpTo(v.v, Len(v.v))

\* C4: an array value is a 4-byte little-endian element tag, an 8-byte
\* little-endian count n, then n elements: the result is the array of length
\* n whose k-th element is what a standalone read of the element type returns
\* where the (k-1)-th ended, array elements included; element tag u32, count
\* 3 and the encodings of 7, 8, 9 give [7, 8, 9].
C4_ArrayDecode ==
    [][ /\ (pc = "value" /\ vt = "Array" /\ result'.st = "ok")
           => LET v == result'.val.v IN
              /\ result'.val.type = "Array"
              /\ Len(bytes) >= pos + 12
              /\ LeDigits(Num(Len(v), 8), bytes, pos + 4, 8)
              /\ \E c \in 0..12 :
                    /\ TagIs(bytes, pos, c)
                    /\ \A k \in 1..Len(v) :
                          /\ v[k].type = GgufValueType[c + 1]
                          /\ GgufValue_read(bytes, pos + 12 + SizesUpTo(v, k - 1),
                                            GgufValueType[c + 1])
                             = Ok(v[k], pos + 12 + SizesUpTo(v, k))
              /\ pos' = pos + 12 + SizesUpTo(v, Len(v))
        /\ (/\ pc = "value" /\ vt = "Array"
            /\ Len(bytes) >= pos + 24
            /\ SubSeq(bytes, pos + 1, pos + 24)
               = <<4, 0, 0, 0, 3, 0, 0, 0, 0, 0, 0, 0, 7, 0, 0, 0, 8, 0, 0, 0, 9, 0, 0, 0>>)
           => /\ result'.st = "ok"
              /\ Len(result'.val.v) = 3
              /\ \A k \in 1..3 : /\ result'.val.v[k].type = "Uint32"
                                 /\ Val(result'.val.v[k].v) = 6 + k
      ]_vars

\* An array of two arrays, [7] of u32 and [1, 2] of u8, was decoded with
\* bytes before and after it.
C4_Witness ==
    /\ pc = "decoded"
    /\ vt = "Array"
    /\ result.st = "ok"
    /\ Len(result.val.v) = 2
    /\ result.val.v[1].type = "Array"
    /\ Val(result.val.v[1].v[1].v) = 7
    /\ result.val.v[2].v = <<[type |-> "Uint8", v |-> 1], [type |-> "Uint8", v |-> 2]>>
    /\ pos = 44
    /\ Len(bytes) = 46

\* C6: a successful GgufValue::read leaves the cursor forward of where it
\* was by exactly the encoded size of the value returned; the bytes after
\* that point and the bytes before the old cursor have no part in the result.
C6_ExactConsumption ==
    [][ (pc = "value" /\ result'.st = "ok")
        => /\ pos' >= pos
           /\ pos' = pos + EncodedSize(result'.val)
           /\ GgufValue_read(SubSeq(bytes, 1, pos'), pos, vt) = Ok(result'.val, pos')
           /\ GgufValue_read(SubSeq(bytes, pos + 1, pos'), 0, vt)
              = Ok(result'.val, pos' - pos)
      ]_vars

\* A 2-byte string was decoded from the middle of a source.
C6_Witness ==
    /\ pc = "decoded"
    /\ result.st = "ok"
    /\ result.val.type = "String"
    /\ result.val.v = <<104, 105>>
    /\ pos = 12
    /\ Len(bytes) = 14

-----------------------------------------------------------------------------
(* Arithmetic of TensorInfo::size_bytes on numerals                        *)

\* The numeral of width w whose digit j, counted from the least significant
\* one, is f[j].
FromDigits(f, w) == [k \in 1..w |-> f[w - k]]

\* A numeral without its leading zeros.
RECURSIVE Trim(_)
Trim(x) == IF x # <<>> /\ x[1] = 0 THEN Trim(Tail(x)) ELSE x

RECURSIVE ColSum(_, _, _, _)
\* The sum of the digit products a_i * b_(j-i) for i from i0 to j.
ColSum(a, b, j, i0) ==
    IF i0 > j THEN 0 ELSE Digit(a, i0) * Digit(b, j - i0) + ColSum(a, b, j, i0 + 1)

RECURSIVE Carry(_, _, _, _)
\* The digits from j on, least significant first, of the number whose digit
\* sums are cols, carry coming in.
Carry(cols, w, j, carry) ==
    IF j = w THEN <<>>
    ELSE <<(cols[j] + carry) % 256>> \o Carry(cols, w, j + 1, (cols[j] + carry) \div 256)

\* The exact product of two numerals, of width Len(a) + Len(b).
Mul(a, b) ==
    LET w == Len(a) + Len(b)
        cols == [j \in 0..(w - 1) |-> ColSum(a, b, j, 0)]
    IN  Reverse(Carry(cols, w, 0, 0))

\* a + b for numerals of one width, modulo 256^width.
Add(a, b) ==
    LET w == Len(a)
        cols == [j \in 0..(w - 1) |-> Digit(a, j) + Digit(b, j)]
    IN  Reverse(Carry(cols, w, 0, 0))

\* Bit b of a numeral, and the number of its significant bits.
Bit(x, b) == (Digit(x, b \div 8) \div (2 ^ (b % 8))) % 2
BitLen(x) ==
    IF \A k \in 1..Len(x) : x[k] = 0 THEN 0
    ELSE LET k == CHOOSE k \in 1..Len(x) : x[k] # 0 /\ \A j \in 1..(k - 1) : x[j] = 0
             t == CHOOSE t \in 1..8 : x[k] >= 2 ^ (t - 1) /\ x[k] < 2 ^ t
         IN  8 * (Len(x) - k) + t

\* f64::MANTISSA_DIGITS: the significant bits an f64 keeps.
MANTISSA_DIGITS == 53

\* The f64 nearest to the integer x, ties to even, as an integer numeral one
\* digit wider (the rounding can carry into a new bit): `as f64` of a u64,
\* and the rounding of an f64 product.
round_f64(x) ==
    LET w == Len(x) + 1
        s == BitLen(x) - MANTISSA_DIGITS
        cut(j) == IF 8 * j + 7 < s THEN 0
                  ELSE IF 8 * j >= s THEN Digit(x, j)
                  ELSE (Digit(x, j) \div (2 ^ (s - 8 * j))) * (2 ^ (s - 8 * j))
        truncated == FromDigits([j \in 0..(w - 1) |-> cut(j)], w)
        ulp == FromDigits([j \in 0..(w - 1) |-> IF j = s \div 8 THEN 2 ^ (s % 8) ELSE 0], w)
        up == /\ Bit(x, s - 1) = 1
              /\ \/ \E b \in 0..(s - 2) : Bit(x, b) = 1
                 \/ Bit(x, s) = 1
    IN  IF s <= 0 THEN <<0>> \o x ELSE IF up THEN Add(truncated, ulp) ELSE truncated

\* QuantizationType::bits_per_weight in sixteenths of a bit: every entry of
\* the table is a multiple of 0.0625, exact as f32 and as f64.
bits_per_weight ==
    [F32 |-> 512, F16 |-> 256, F64 |-> 1024, Q4_0 |-> 72, Q4_1 |-> 72,
     Q5_0 |-> 88, Q5_1 |-> 88, Q8_0 |-> 136, Q8_1 |-> 136, Q2_K |-> 41,
     Q3_K |-> 55, Q4_K |-> 72, Q5_K |-> 88, Q6_K |-> 105, Q8_K |-> 136,
     IQ2_XXS |-> 33, IQ2_XS |-> 37, IQ3_XXS |-> 49, IQ1_S |-> 25,
     IQ4_NL |-> 72, IQ3_S |-> 55, IQ2_S |-> 40, IQ4_XS |-> 68, I8 |-> 128,
     I16 |-> 256, I32 |-> 512, I64 |-> 1024, IQ1_M |-> 28]

\* `(x / 8.0).ceil()` of an f64 x held in sixteenths: x / 128 rounded up.
\* The division by a power of two and ceil are exact in f64.
div_8_ceil(x) ==
    LET w == Len(x)
        q == FromDigits([j \in 0..(w - 1) |->
                            Digit(x, j) \div 128 + (Digit(x, j + 1) % 128) * 2], w)
    IN  IF Digit(x, 0) % 128 = 0 THEN q ELSE NumInc(q)

\* `as u64` of a non-negative integral f64: saturating at 2^64 - 1.
as_u64(x) ==
    IF \E j \in 8..(Len(x) - 1) : Digit(x, j) # 0
    THEN [k \in 1..8 |-> 255]
    ELSE FromDigits([j \in 0..7 |-> Digit(x, j)], 8)

RECURSIVE product(_, _, _, _)
\* self.dimensions.iter().product() from extent k on, acc the product so far:
\* a fold of u64 `*` from 1.  The multiplication inherits the build's overflow
\* checks: on overflow it panics with them, wraps modulo 2^64 without.
product(dimensions, k, acc, checks) ==
    IF k > Len(dimensions) THEN [st |-> "ok", val |-> acc]
    ELSE LET m == Mul(acc, dimensions[k]) IN
         IF checks /\ (\E j \in 1..8 : m[j] # 0) THEN [st |-> "panic"]
         ELSE product(dimensions, k + 1, SubSeq(m, 9, 16), checks)

\* TensorInfo::size_bytes, with the element count it computed.
size_bytes(self, checks) ==
    IF self.dimensions = <<>>
    THEN [st |-> "ok", val |-> Num(0, 8), element_count |-> <<>>]
    ELSE LET count == product(self.dimensions, 1, Num(1, 8), checks) IN
         IF count.st = "panic" THEN [st |-> "panic", element_count |-> <<>>]
         ELSE LET bits_per_element == Num(bits_per_weight[self.quantization_type], 2)
                  bits == round_f64(Mul(round_f64(count.val), bits_per_element))
              IN  [st |-> "ok", val |-> as_u64(div_8_ceil(bits)),
                   element_count |-> count.val]

-----------------------------------------------------------------------------
(* A tensor descriptor built from a raw quantization code and its extents, *)
(* then sized                                                              *)

\* Raw codes: 0..31, and codes whose low byte alone is a member.
RawCodes ==
    {Num(c, 4) : c \in 0..31} \cup {<<0, 0, 1, 2>>, <<1, 0, 0, 0>>, <<255, 255, 255, 255>>}

\* Extents: 0, 2, 3, 2^32, 2^53 + 1, 2^64 - 1.
ExtentSamples ==
    { Num(0, 8), Num(2, 8), Num(3, 8), <<0, 0, 0, 1, 0, 0, 0, 0>>,
      <<0, 32, 0, 0, 0, 0, 0, 1>>, [k \in 1..8 |-> 255] }

\* Every raw code over a few dimension lists; a few codes over every list of
\* at most 2 sample extents, and over every list of at most MAX_DIMENSIONS
\* of the extents 0, 3, 2^32 and 2^64 - 1.
TensorInputs ==
    { [raw |-> r, extents |-> e] :
        r \in RawCodes,
        e \in {<<>>, <<Num(2, 8), Num(2, 8)>>, <<Num(3, 8)>>,
               <<<<0, 32, 0, 0, 0, 0, 0, 1>>>>} }
    \cup { [raw |-> Num(c, 4), extents |-> e] :
             c \in {0, 2, 10},
             e \in SeqsUpTo(ExtentSamples, 2)
                   \cup SeqsUpTo({ Num(0, 8), Num(3, 8), <<0, 0, 0, 1, 0, 0, 0, 0>>,
                                   [k \in 1..8 |-> 255] }, MAX_DIMENSIONS) }

InitTensor ==
    /\ \E t \in TensorInputs : raw = t.raw /\ extents = t.extents
    /\ overflow_checks \in BOOLEAN
    /\ pc = "quant"
    /\ bytes = <<>>
    /\ pos = 0
    /\ i = 0
    /\ header = NoHeader
    /\ data = <<>>
    /\ tensors = <<>>
    /\ result = None
    /\ query = ""
    /\ accessor = "none"
    /\ vt = "none"
    /\ element_count = <<>>

\* QuantizationType::try_from(raw)?, then the descriptor is built and pushed.
TryFromCode ==
    /\ pc = "quant"
    /\ LET quantization_type == QuantizationType_try_from(raw) IN
       IF quantization_type.st = "ok"
       THEN /\ tensors' = <<[name |-> <<116>>, dimensions |-> extents,
                             quantization_type |-> quantization_type.val,
                             offset |-> Num(0, 8)]>>
            /\ result' = [st |-> "ok", val |-> quantization_type.val]
            /\ pc' = "size"
       ELSE /\ tensors' = tensors
            /\ result' = [st |-> "err", err |-> quantization_type.err]
            /\ pc' = "done"
    /\ UNCHANGED <<bytes, pos, vt, lookupVars, fileVars, tensorVars>>

\* tensor.size_bytes()
SizeBytes ==
    /\ pc = "size"
    /\ LET r == size_bytes(tensors[1], overflow_checks) IN
       /\ result' = IF r.st = "ok" THEN [st |-> "ok", val |-> r.val]
                    ELSE [st |-> "panic"]
       /\ element_count' = r.element_count
    /\ pc' = "done"
    /\ UNCHANGED <<bytes, pos, vt, lookupVars, fileVars, tensors, raw, extents, overflow_checks>>

NextTensor == TryFromCode \/ SizeBytes

SpecTensor == InitTensor /\ [][NextTensor]_vars

-----------------------------------------------------------------------------
(* Claims about the quantization catalog and TensorInfo::size_bytes,       *)
(* checked under SpecTensor                                                *)

\* C8: converting a raw code succeeds exactly for the codes 0..3 and 6..29,
\* the discriminant of the variant returned being the code; every other
\* code, 4, 5 and 30 among them, fails with InvalidQuantizationType carrying
\* the raw code.
C8_QuantizationCodes ==
    [][ pc = "quant" =>
          IF IsSmall(raw) /\ Val(raw) \in (0..3) \cup (6..29)
          THEN /\ result'.st = "ok"
               /\ QuantizationType[result'.val] = Val(raw)
               /\ tensors'[1].quantization_type = result'.val
          ELSE /\ result' = [st |-> "err",
                             err |-> [kind |-> "InvalidQuantizationType", code |-> raw]]
               /\ pc' = "done"
      ]_vars

\* The gap code 5 was refused, the error carrying 5.
C8_Witness ==
    /\ pc = "done"
    /\ result.st = "err"
    /\ result.err.kind = "InvalidQuantizationType"
    /\ Val(result.err.code) = 5
    /\ Val(raw) = 5

RECURSIVE ExactProduct(_, _)
\* The product of the first k extents as a natural number, no width lost.
ExactProduct(dims, k) ==
    IF k = 0 THEN <<1>> ELSE Mul(ExactProduct(dims, k - 1), dims[k])

\* The product of the extents times the bits per weight, divided by 8 and
\* rounded up, as a natural number.
ExactSize(dims, q) ==
    div_8_ceil(Mul(ExactProduct(dims, Len(dims)), Num(bits_per_weight[q], 2)))

\* C9: size_bytes returns 0 for an empty dimension list, and otherwise the
\* product of the extents times bits_per_weight, divided by 8 and rounded up
\* (stated where that number fits in 64 bits): [2, 2] with Q4_0 gives 3, a
\* list with a 0 extent gives 0.
C9_SizeFormula ==
    [][ pc = "size" =>
          LET self == tensors[1] IN
          IF self.dimensions = <<>>
          THEN result' = [st |-> "ok", val |-> Num(0, 8)]
          ELSE Len(Trim(ExactSize(self.dimensions, self.quantization_type))) <= 8
               => /\ result'.st = "ok"
                  /\ Trim(result'.val)
                     = Trim(ExactSize(self.dimensions, self.quantization_type))
      ]_vars

\* C10: for a dimension list whose exact product fits in 64 bits, size_bytes
\* does not abort and the element count it uses is that product, whatever
\* the order of the extents.
C10_NoOverflow ==
    [][ (/\ pc = "size"
         /\ extents # <<>>
         /\ Len(Trim(ExactProduct(extents, Len(extents)))) <= 8)
        => /\ result'.st = "ok"
           /\ Trim(element_count') = Trim(ExactProduct(extents, Len(extents)))
      ]_vars

-----------------------------------------------------------------------------
(* Typed accessors of GgufValue and of the metadata store.  A store is a   *)
(* function from the keys present to values; keys and string values are    *)
(* strings here.                                                           *)

MetadataKeyNotFound(k) == [kind |-> "MetadataKeyNotFound", key |-> k]
InvalidMetadataValueType(k, e, f) ==
    [kind |-> "InvalidMetadataValueType", key |-> k, expected |-> e, found |-> f]
IncompleteModelConfig(f) == [kind |-> "IncompleteModelConfig", field |-> f]

\* Result values that carry no cursor, and Option values.
Good(v) == [st |-> "ok", val |-> v]
Bad(e) == [st |-> "err", err |-> e]
Some(v) == [st |-> "some", val |-> v]
Absent == [st |-> "absent"]

\* format!("{:?}", self): the rendering shows the variant and its payload.
Debug(self) == <<self.type, self.v>>

\* GgufValue::as_u32 with a range check on the u64 arm (u32::try_from).
GgufValue_as_u32_checked(self) ==
    CASE self.type = "Uint32" -> Good(self.v)
      [] self.type = "Uint64" /\ SubSeq(self.v, 1, 4) = <<0, 0, 0, 0>> ->
            Good(SubSeq(self.v, 5, 8))
      [] OTHER -> Bad(InvalidMetadataValueType("unknown", "u32", Debug(self)))

\* GgufValue::as_u32; `*v as u32` keeps the low 4 bytes.
GgufValue_as_u32(self) ==
    CASE self.type = "Uint32" -> Good(self.v)
      [] self.type = "Uint64" -> Good(SubSeq(self.v, 5, 8))
      [] OTHER -> Bad(InvalidMetadataValueType("unknown", "u32", Debug(self)))

\* GgufValue::as_u64; `*v as u64` widens with zeros.
GgufValue_as_u64(self) ==
    CASE self.type = "Uint64" -> Good(self.v)
      [] self.type = "Uint32" -> Good(<<0, 0, 0, 0>> \o self.v)
      [] OTHER -> Bad(InvalidMetadataValueType("unknown", "u64", Debug(self)))

\* GgufValue::as_string
GgufValue_as_string(self) ==
    CASE self.type = "String" -> Good(self.v)
      [] OTHER -> Bad(InvalidMetadataValueType("unknown", "string", Debug(self)))

\* GgufValue::as_f32
GgufValue_as_f32(self) ==
    CASE self.type = "Float32" -> Good(self.v)
      [] OTHER -> Bad(InvalidMetadataValueType("unknown", "f32", Debug(self)))

\* Result::ok
ok(r) == IF r.st = "ok" THEN Some(r.val) ELSE Absent

\* GgufMetadata::get
get(metadata, k) == IF k \in DOMAIN metadata THEN Some(metadata[k]) ELSE Absent

\* GgufMetadata::get_required
get_required(metadata, k) ==
    IF k \in DOMAIN metadata THEN Good(metadata[k]) ELSE Bad(MetadataKeyNotFound(k))

\* GgufMetadata::get_string, get_u32, get_u64, get_f32: get_required(key)?.as_*()
get_string(metadata, k) ==
    LET r == get_required(metadata, k) IN IF r.st = "ok" THEN GgufValue_as_string(r.val) ELSE r
get_u32(metadata, k) ==
    LET r == get_required(metadata, k) IN IF r.st = "ok" THEN GgufValue_as_u32(r.val) ELSE r
get_u64(metadata, k) ==
    LET r == get_required(metadata, k) IN IF r.st = "ok" THEN GgufValue_as_u64(r.val) ELSE r
get_f32(metadata, k) ==
    LET r == get_required(metadata, k) IN IF r.st = "ok" THEN GgufValue_as_f32(r.val) ELSE r

\* get_u32_opt that takes a stored u32 only.
get_u32_opt_exact(metadata, k) ==
    LET v == get(metadata, k) IN
    IF v.st = "some" /\ v.val.type = "Uint32" THEN Some(v.val.v) ELSE Absent

\* The optional accessors: self.get(key).and_then(|v| v.as_*().ok())
get_string_opt(metadata, k) ==
    LET v == get(metadata, k) IN IF v.st = "some" THEN ok(GgufValue_as_string(v.val)) ELSE Absent
get_u32_opt(metadata, k) ==
    LET v == get(metadata, k) IN IF v.st = "some" THEN ok(GgufValue_as_u32(v.val)) ELSE Absent
get_u64_opt(metadata, k) ==
    LET v == get(metadata, k) IN IF v.st = "some" THEN ok(GgufValue_as_u64(v.val)) ELSE Absent
get_f32_opt(metadata, k) ==
    LET v == get(metadata, k) IN IF v.st = "some" THEN ok(GgufValue_as_f32(v.val)) ELSE Absent

-----------------------------------------------------------------------------
(* One accessor call on a store                                            *)

\* One stored value of each variant, u32 and u64 values small, 2^32 and above.
StoredSamples ==
    << GV("Uint8", 3), GV("Int8", -3), GV("Uint16", <<1, 2>>),
      GV("Int16", [neg |-> TRUE, mag |-> <<0, 1>>]),
      GV("Uint32", <<0, 0, 0, 7>>), GV("Uint32", <<255, 255, 255, 255>>),
      GV("Int32", [neg |-> FALSE, mag |-> <<0, 0, 0, 7>>]),
      GV("Float32", [bits |-> <<63, 128, 0, 0>>]), GV("Bool", TRUE),
      GV("String", "llama"), GV("String", ""),
      GV("Array", <<GV("String", "a"), GV("String", "b")>>), GV("Array", <<>>),
      GV("Uint64", <<0, 0, 0, 0, 0, 0, 0, 5>>), GV("Uint64", <<0, 0, 0, 1, 0, 0, 0, 0>>),
      GV("Uint64", <<0, 0, 0, 1, 0, 0, 0, 5>>),
      GV("Uint64", <<255, 255, 255, 255, 255, 255, 255, 255>>),
      GV("Int64", [neg |-> FALSE, mag |-> <<0, 0, 0, 0, 0, 0, 0, 7>>]),
      GV("Float64", [bits |-> <<63, 240, 0, 0, 0, 0, 0, 0>>]) >>

\* The empty store (k = 0), the store of key "a" holding sample k, and the
\* store holding it under "b" beside a string under "a".
AccessStore(k, two) ==
    IF k = 0 THEN <<>>
    ELSE IF two THEN ("a" :> GV("String", "x")) @@ ("b" :> StoredSamples[k])
    ELSE "a" :> StoredSamples[k]

Accessors ==
    { "get", "get_required", "get_string", "get_string_opt", "get_u32",
      "get_u32_opt", "get_u64", "get_u64_opt", "get_f32", "get_f32_opt" }

InitAccess ==
    /\ \E k \in 0..Len(StoredSamples), two \in BOOLEAN : data = AccessStore(k, two)
    /\ query \in {"a", "b", "unknown"}
    /\ accessor \in Accessors
    /\ pc = "get"
    /\ bytes = <<>>
    /\ pos = 0
    /\ i = 0
    /\ header = NoHeader
    /\ tensors = <<>>
    /\ result = None
    /\ vt = "none"
    /\ raw = <<>>
    /\ extents = <<>>
    /\ overflow_checks = FALSE
    /\ element_count = <<>>

\* metadata.<accessor>(query)
CallAccessor ==
    /\ pc = "get"
    /\ result' = CASE accessor = "get" -> get(data, query)
                   [] accessor = "get_required" -> get_required(data, query)
                   [] accessor = "get_string" -> get_string(data, query)
                   [] accessor = "get_string_opt" -> get_string_opt(data, query)
                   [] accessor = "get_u32" -> get_u32(data, query)
                   [] accessor = "get_u32_opt" -> get_u32_opt(data, query)
                   [] accessor = "get_u64" -> get_u64(data, query)
                   [] accessor = "get_u64_opt" -> get_u64_opt(data, query)
                   [] accessor = "get_f32" -> get_f32(data, query)
                   [] accessor = "get_f32_opt" -> get_f32_opt(data, query)
    /\ pc' = "done"
    /\ UNCHANGED <<bytes, pos, vt, lookupVars, fileVars, tensors, tensorVars>>

NextAccess == CallAccessor

SpecAccess == InitAccess /\ [][NextAccess]_vars

-----------------------------------------------------------------------------
(* Claims about the accessors, checked under SpecAccess                    *)

\* C11: get_u32 on a present key returns a stored u32 as it is and a stored
\* u64 modulo 2^32, with no range error (a stored 4294967296 gives 0); every
\* other stored variant is a type mismatch.
C11_U32Accessor ==
    [][ (pc = "get" /\ accessor = "get_u32" /\ query \in DOMAIN data)
        => LET v == data[query] IN
           IF v.type = "Uint32" THEN result' = [st |-> "ok", val |-> v.v]
           ELSE IF v.type = "Uint64"
                THEN /\ result'.st = "ok"
                     /\ Len(result'.val) = 4
                     /\ \A j \in 0..3 : Digit(result'.val, j) = Digit(v.v, j)
                     /\ v.v = <<0, 0, 0, 1, 0, 0, 0, 0>> => Val(result'.val) = 0
                ELSE /\ result'.st = "err"
                     /\ result'.err.kind = "InvalidMetadataValueType"
                     /\ result'.err.expected = "u32"
      ]_vars

\* get_u32 of a stored u64 4294967296 returned 0.
C11_Witness ==
    /\ pc = "done"
    /\ accessor = "get_u32"
    /\ query \in DOMAIN data
    /\ data[query].type = "Uint64"
    /\ data[query].v = <<0, 0, 0, 1, 0, 0, 0, 0>>
    /\ result = [st |-> "ok", val |-> <<0, 0, 0, 0>>]

\* C12: a typed accessor called with an absent key returns the lookup error
\* naming that key; called with a present key whose variant does not coerce,
\* it returns the type-mismatch error carrying the requested key, the
\* expected kind and the variant found.
C12_MismatchCarriesKey ==
    [][ (pc = "get" /\ accessor \in {"get_string", "get_u32", "get_u64", "get_f32"})
        => IF query \notin DOMAIN data
           THEN result' = [st |-> "err",
                           err |-> [kind |-> "MetadataKeyNotFound", key |-> query]]
           ELSE result'.st = "err"
                => /\ result'.err.kind = "InvalidMetadataValueType"
                   /\ result'.err.key = query
                   /\ result'.err.expected
                      = [get_string |-> "string", get_u32 |-> "u32",
                         get_u64 |-> "u64", get_f32 |-> "f32"][accessor]
                   /\ result'.err.found[1] = data[query].type
      ]_vars

-----------------------------------------------------------------------------
(* ModelConfig::from_metadata                                              *)

\* The vocab_size chain falling through to the next step only past an
\* absent key.
vocab_size_past_absent_only(metadata, arch_prefix) ==
    IF "general.vocab_size" \in DOMAIN metadata
    THEN get_u64(metadata, "general.vocab_size")
    ELSE IF (arch_prefix \o "vocab_size") \in DOMAIN metadata
    THEN get_u64(metadata, arch_prefix \o "vocab_size")
    ELSE LET tokens == get(metadata, "tokenizer.ggml.tokens") IN
         IF tokens.st = "some" /\ tokens.val.type = "Array"
         THEN Good(Num(Len(tokens.val.v), 8))
         ELSE Bad(IncompleteModelConfig("vocab_size"))

\* The vocab_size chain trying the architecture's key first.
vocab_size_arch_first(metadata, arch_prefix) ==
    LET general == get_u64(metadata, "general.vocab_size")
        arch == get_u64(metadata, arch_prefix \o "vocab_size")
        tokens == get(metadata, "tokenizer.ggml.tokens")
    IN  IF arch.st = "ok" THEN arch
        ELSE IF general.st = "ok" THEN general
        ELSE IF tokens.st = "some" /\ tokens.val.type = "Array"
             THEN Good(Num(Len(tokens.val.v), 8))
             ELSE Bad(IncompleteModelConfig("vocab_size"))

\* let vocab_size = get_u64("general.vocab_size")
\*     .or_else(|_| get_u64("<arch>.vocab_size"))
\*     .or_else(|_| tokens array length, or IncompleteModelConfig("vocab_size"))
vocab_size(metadata, arch_prefix) ==
    LET general == get_u64(metadata, "general.vocab_size")
        arch == get_u64(metadata, arch_prefix \o "vocab_size")
        tokens == get(metadata, "tokenizer.ggml.tokens")
    IN  IF general.st = "ok" THEN general
        ELSE IF arch.st = "ok" THEN arch
        ELSE IF tokens.st = "some" /\ tokens.val.type = "Array"
             THEN Good(Num(Len(tokens.val.v), 8))
             ELSE Bad(IncompleteModelConfig("vocab_size"))

\* let context_length = get_u64("general.context_length")
\*     .or_else(|_| get_u64("<arch>.context_length"))
\*     .map_err(|_| IncompleteModelConfig("context_length"))
context_length(metadata, arch_prefix) ==
    LET general == get_u64(metadata, "general.context_length")
        arch == get_u64(metadata, arch_prefix \o "context_length")
    IN  IF general.st = "ok" THEN general
        ELSE IF arch.st = "ok" THEN arch
        ELSE Bad(IncompleteModelConfig("context_length"))

\* A required u32 that also accepts the general.* key.
required_u32_or_general(metadata, arch_prefix, name) ==
    LET r == get_u32(metadata, arch_prefix \o name)
        g == get_u32(metadata, "general." \o name)
    IN  IF r.st = "ok" THEN r
        ELSE IF g.st = "ok" THEN g
        ELSE Bad(IncompleteModelConfig(name))

\* metadata.get_u32(&format!("{arch_prefix}<name>"))
\*     .map_err(|_| GgufError::IncompleteModelConfig("<name>".to_string()))
required_u32(metadata, arch_prefix, name) ==
    LET r == get_u32(metadata, arch_prefix \o name) IN
    IF r.st = "ok" THEN r ELSE Bad(IncompleteModelConfig(name))

\* The required fields with block_count resolved before vocab_size.
required_fields_block_count_first(metadata, arch_prefix) ==
    << [field |-> "block_count",
        r |-> required_u32(metadata, arch_prefix, "block_count")],
       [field |-> "vocab_size", r |-> vocab_size(metadata, arch_prefix)],
       [field |-> "context_length", r |-> context_length(metadata, arch_prefix)],
       [field |-> "embedding_length",
        r |-> required_u32(metadata, arch_prefix, "embedding_length")],
       [field |-> "feed_forward_length",
        r |-> required_u32(metadata, arch_prefix, "feed_forward_length")],
       [field |-> "attention_head_count",
        r |-> required_u32(metadata, arch_prefix, "attention.head_count")] >>

\* The required fields after architecture, in the order of their statements.
required_fields(metadata, arch_prefix) ==
    << [field |-> "vocab_size", r |-> vocab_size(metadata, arch_prefix)],
       [field |-> "context_length", r |-> context_length(metadata, arch_prefix)],
       [field |-> "block_count",
        r |-> required_u32(metadata, arch_prefix, "block_count")],
       [field |-> "embedding_length",
        r |-> required_u32(metadata, arch_prefix, "embedding_length")],
       [field |-> "feed_forward_length",
        r |-> required_u32(metadata, arch_prefix, "feed_forward_length")],
       [field |-> "attention_head_count",
        r |-> required_u32(metadata, arch_prefix, "attention.head_count")] >>

\* ModelConfig::from_metadata: each `?` returns the first error met.
from_metadata(metadata) ==
    LET architecture == get_string(metadata, "general.architecture") IN
    IF architecture.st # "ok" THEN architecture
    ELSE
    LET arch_prefix == architecture.val \o "."
        required == required_fields(metadata, arch_prefix)
        failed == {k \in 1..Len(required) : required[k].r.st # "ok"}
        value == [f \in {required[k].field : k \in 1..Len(required)} |->
                    (required[CHOOSE k \in 1..Len(required) : required[k].field = f]).r.val]
    IN
    IF failed # {}
    THEN required[CHOOSE k \in failed : \A j \in failed : k <= j].r
    ELSE Good(
      [architecture |-> architecture.val,
       vocab_size |-> value["vocab_size"],
       context_length |-> value["context_length"],
       block_count |-> value["block_count"],
       embedding_length |-> value["embedding_length"],
       feed_forward_length |-> value["feed_forward_length"],
       attention_head_count |-> value["attention_head_count"],
       attention_head_count_kv |->
           get_u32_opt(metadata, arch_prefix \o "attention.head_count_kv"),
       attention_layer_norm_rms_epsilon |->
           get_f32_opt(metadata, arch_prefix \o "attention.layer_norm_rms_epsilon"),
       rope_dimension_count |->
           get_u32_opt(metadata, arch_prefix \o "rope.dimension_count"),
       rope_freq_base |-> get_f32_opt(metadata, arch_prefix \o "rope.freq_base"),
       rope_scaling_type |-> get_string_opt(metadata, arch_prefix \o "rope.scaling.type"),
       tokenizer_ggml_model |-> get_string_opt(metadata, "tokenizer.ggml.model"),
       tokenizer_ggml_tokens |-> Absent,
       tokenizer_ggml_scores |-> Absent,
       tokenizer_ggml_token_type |-> Absent,
       tokenizer_chat_template |-> get_string_opt(metadata, "tokenizer.chat_template"),
       general_name |-> get_string_opt(metadata, "general.name"),
       general_description |-> get_string_opt(metadata, "general.description"),
       general_license |-> get_string_opt(metadata, "general.license")])

-----------------------------------------------------------------------------
(* One extraction of a ModelConfig from a store                            *)

U32(n) == GV("Uint32", Num(n, 4))
U64(n) == GV("Uint64", Num(n, 8))
F32(b) == GV("Float32", [bits |-> b])

\* A store with every key the extraction looks at, both vocab_size keys,
\* both context_length keys and a token array.
FullStore ==
    ("general.architecture" :> GV("String", "llama"))
    @@ ("general.vocab_size" :> U64(32000))
    @@ ("llama.vocab_size" :> U32(32001))
    @@ ("tokenizer.ggml.tokens" :> GV("Array", <<GV("String", "a"), GV("String", "b")>>))
    @@ ("general.context_length" :> U64(4096))
    @@ ("llama.context_length" :> U64(2048))
    @@ ("llama.block_count" :> U32(32))
    @@ ("llama.embedding_length" :> U32(4096))
    @@ ("llama.feed_forward_length" :> U32(11008))
    @@ ("llama.attention.head_count" :> U32(32))
    @@ ("llama.attention.head_count_kv" :> U32(8))
    @@ ("llama.attention.layer_norm_rms_epsilon" :> F32(<<55, 39, 197, 172>>))
    @@ ("llama.rope.dimension_count" :> U32(128))
    @@ ("llama.rope.freq_base" :> F32(<<70, 28, 64, 0>>))
    @@ ("llama.rope.scaling.type" :> GV("String", "linear"))
    @@ ("tokenizer.ggml.model" :> GV("String", "llama"))
    @@ ("tokenizer.chat_template" :> GV("String", "t"))
    @@ ("general.name" :> GV("String", "n"))
    @@ ("general.description" :> GV("String", "d"))
    @@ ("general.license" :> GV("String", "mit"))

\* A store with the required keys only, no vocab_size key of any form and a
\* token array of three strings.
InferredStore ==
    ("general.architecture" :> GV("String", "llama"))
    @@ ("tokenizer.ggml.tokens" :>
          GV("Array", <<GV("String", "a"), GV("String", "b"), GV("String", "c")>>))
    @@ ("llama.context_length" :> U32(2048))
    @@ ("llama.block_count" :> U32(32))
    @@ ("llama.embedding_length" :> U32(4096))
    @@ ("llama.feed_forward_length" :> U32(11008))
    @@ ("llama.attention.head_count" :> U32(32))

BaseStores == <<FullStore, InferredStore>>

Remove(k) == [k |-> k, del |-> TRUE, v |-> GV("Bool", FALSE)]
Put(k, v) == [k |-> k, del |-> FALSE, v |-> v]

\* Changes of one key: a looked-up key removed, stored with a variant that
\* does not coerce, or stored with another variant that does; a key the
\* extraction does not look at added.
StoreEdits ==
    << Remove("general.architecture"), Remove("general.vocab_size"),
       Remove("llama.vocab_size"), Remove("tokenizer.ggml.tokens"),
       Remove("general.context_length"), Remove("llama.context_length"),
       Remove("llama.block_count"), Remove("llama.embedding_length"),
       Remove("llama.feed_forward_length"), Remove("llama.attention.head_count"),
       Put("general.architecture", U32(7)),
       Put("general.architecture", GV("String", "qwen2")),
       Put("general.vocab_size", GV("String", "x")),
       Put("general.vocab_size", U32(100)),
       Put("llama.vocab_size", GV("Int32", [neg |-> FALSE, mag |-> <<0, 0, 0, 7>>])),
       Put("llama.vocab_size", U64(50000)),
       Put("tokenizer.ggml.tokens", GV("String", "x")),
       Put("general.context_length", F32(<<63, 128, 0, 0>>)),
       Put("llama.context_length", GV("String", "x")),
       Put("llama.block_count", GV("Uint8", 3)),
       Put("llama.block_count", GV("Uint64", <<0, 0, 0, 1, 0, 0, 0, 5>>)),
       Put("llama.embedding_length", GV("String", "x")),
       Put("llama.feed_forward_length", GV("Int32", [neg |-> FALSE, mag |-> <<0, 0, 0, 7>>])),
       Put("llama.attention.head_count", GV("Uint16", <<0, 9>>)),
       Put("general.block_count", U32(9)),
       Put("general.embedding_length", U32(9)),
       Put("general.feed_forward_length", U32(9)),
       Put("general.attention.head_count", U32(9)),
       Put("llama.attention_head_count", U32(9)),
       Remove("llama.attention.head_count_kv"),
       Put("llama.attention.head_count_kv", GV("String", "x")),
       Put("llama.attention.head_count_kv", GV("Uint64", <<0, 0, 0, 1, 0, 0, 0, 5>>)),
       Put("llama.rope.freq_base", GV("Float64", [bits |-> <<63, 240, 0, 0, 0, 0, 0, 0>>])),
       Put("llama.rope.scaling.type", GV("Bool", TRUE)),
       Remove("tokenizer.ggml.model"),
       Put("general.name", U32(7)),
       Put("general.license", GV("String", "gpl")),
       Put("tokenizer.ggml.scores", GV("Array", <<F32(<<63, 128, 0, 0>>)>>)),
       Put("tokenizer.ggml.token_type", GV("Array", <<U32(1)>>)) >>

MaxEdits == 2

ApplyEdit(store, e) ==
    IF e.del THEN [k \in DOMAIN store \ {e.k} |-> store[k]]
    ELSE (e.k :> e.v) @@ store

RECURSIVE ApplyEdits(_, _)
ApplyEdits(store, es) ==
    IF es = <<>> THEN store
    ELSE ApplyEdits(ApplyEdit(store, StoreEdits[Head(es)]), Tail(es))

\* The lists of at most MaxEdits edits, in increasing position.
EditLists ==
    {es \in SeqsUpTo(1..Len(StoreEdits), MaxEdits) :
        \A j \in 1..(Len(es) - 1) : es[j] < es[j + 1]}

InitConfig ==
    /\ \E b \in 1..Len(BaseStores), es \in EditLists :
          data = ApplyEdits(BaseStores[b], es)
    /\ pc = "config"
    /\ query = ""
    /\ accessor = "none"
    /\ bytes = <<>>
    /\ pos = 0
    /\ i = 0
    /\ header = NoHeader
    /\ tensors = <<>>
    /\ result = None
    /\ vt = "none"
    /\ raw = <<>>
    /\ extents = <<>>
    /\ overflow_checks = FALSE
    /\ element_count = <<>>

\* ModelConfig::from_metadata(&metadata)
ExtractConfig ==
    /\ pc = "config"
    /\ result' = from_metadata(data)
    /\ pc' = "done"
    /\ UNCHANGED <<bytes, pos, vt, lookupVars, fileVars, tensors, tensorVars>>

NextConfig == ExtractConfig

SpecConfig == InitConfig /\ [][NextConfig]_vars

-----------------------------------------------------------------------------
(* Claims about from_metadata, checked under SpecConfig                    *)

Has(k) == k \in DOMAIN data
Coerces(k) == Has(k) /\ data[k].type \in {"Uint32", "Uint64"}
Widened(k) == IF data[k].type = "Uint64" THEN data[k].v ELSE <<0, 0, 0, 0>> \o data[k].v
Narrowed(k) == IF data[k].type = "Uint32" THEN data[k].v ELSE SubSeq(data[k].v, 5, 8)
IsString(k) == Has(k) /\ data[k].type = "String"
IsArray(k) == Has(k) /\ data[k].type = "Array"
Extracted == pc = "done" /\ IsString("general.architecture")
Prefix == data["general.architecture"].v \o "."
ConfigError(f) ==
    /\ result.st = "err"
    /\ result.err.kind = "IncompleteModelConfig"
    /\ result.err.field = f

\* C13: with the architecture resolved, vocab_size is the value under
\* general.vocab_size if that resolves, else the value under
\* <arch>.vocab_size if that resolves, else the element count of the array
\* under tokenizer.ggml.tokens; with none of the three, extraction fails
\* with the config error naming vocab_size.
C13_VocabSizeFallback ==
    Extracted =>
        IF Coerces("general.vocab_size")
        THEN result.st = "ok" => result.val.vocab_size = Widened("general.vocab_size")
        ELSE IF Coerces(Prefix \o "vocab_size")
        THEN result.st = "ok" => result.val.vocab_size = Widened(Prefix \o "vocab_size")
        ELSE IF IsArray("tokenizer.ggml.tokens")
        THEN result.st = "ok" =>
                result.val.vocab_size = Num(Len(data["tokenizer.ggml.tokens"].v), 8)
        ELSE ConfigError("vocab_size")

\* A config whose vocab_size 3 was counted from the token array, no
\* vocab_size key being stored.
C13_Witness ==
    /\ Extracted
    /\ ~Has("general.vocab_size")
    /\ ~Has("llama.vocab_size")
    /\ IsArray("tokenizer.ggml.tokens")
    /\ result.st = "ok"
    /\ result.val.vocab_size = <<0, 0, 0, 0, 0, 0, 0, 3>>

\* vocab_size resolved to x: the config carries x, or extraction failed at a
\* later required field.
VocabIs(x) ==
    IF result.st = "ok" THEN result.val.vocab_size = x
    ELSE result.err.kind = "IncompleteModelConfig" /\ result.err.field # "vocab_size"

TokenCount == Num(Len(data["tokenizer.ggml.tokens"].v), 8)

\* C14: a step of the vocab_size chain is passed over when its key is absent
\* or holds a variant that does not coerce to u64: a present general.vocab_size
\* of another variant gives way to <arch>.vocab_size, and both give way to the
\* token array; a key whose value coerces is never passed over.
C14_FallThroughOnMismatch ==
    Extracted =>
        /\ Coerces("general.vocab_size") => VocabIs(Widened("general.vocab_size"))
        /\ ~Coerces("general.vocab_size") /\ Coerces(Prefix \o "vocab_size")
              => VocabIs(Widened(Prefix \o "vocab_size"))
        /\ ~Coerces("general.vocab_size") /\ ~Coerces(Prefix \o "vocab_size")
              /\ IsArray("tokenizer.ggml.tokens")
              => VocabIs(TokenCount)

\* C14 as stated: a later step is used only when the earlier keys are absent;
\* a present key, whatever its variant, is never passed over.
C14_AsClaimed ==
    Extracted /\ result.st = "ok" =>
        /\ Has("general.vocab_size")
              => /\ Coerces("general.vocab_size")
                 /\ result.val.vocab_size = Widened("general.vocab_size")
        /\ ~Has("general.vocab_size") /\ Has(Prefix \o "vocab_size")
              => /\ Coerces(Prefix \o "vocab_size")
                 /\ result.val.vocab_size = Widened(Prefix \o "vocab_size")

\* general.vocab_size stored as a string, and the config's vocab_size taken
\* from llama.vocab_size.
C14_Witness ==
    /\ Extracted
    /\ IsString("general.vocab_size")
    /\ Coerces("llama.vocab_size")
    /\ result.st = "ok"
    /\ result.val.vocab_size = Widened("llama.vocab_size")

VocabResolves ==
    \/ Coerces("general.vocab_size")
    \/ Coerces(Prefix \o "vocab_size")
    \/ IsArray("tokenizer.ggml.tokens")
ContextResolves ==
    Coerces("general.context_length") \/ Coerces(Prefix \o "context_length")

\* The four u32 fields in order: the config's field, the key read after the
\* architecture prefix, and the name carried by the error.
StrictFields ==
    << [field |-> "block_count", suffix |-> "block_count", named |-> "block_count"],
       [field |-> "embedding_length", suffix |-> "embedding_length",
        named |-> "embedding_length"],
       [field |-> "feed_forward_length", suffix |-> "feed_forward_length",
        named |-> "feed_forward_length"],
       [field |-> "attention_head_count", suffix |-> "attention.head_count",
        named |-> "attention.head_count"] >>

Unresolved ==
    {k \in 1..Len(StrictFields) : ~Coerces(Prefix \o StrictFields[k].suffix)}

\* C15: with architecture, vocab_size and context_length resolved, each of
\* block_count, embedding_length, feed_forward_length and
\* attention_head_count comes from its one <arch>. key only (the last from
\* <arch>.attention.head_count), whatever general.* keys are stored; when a
\* key is absent the extraction fails with the config error naming
\* block_count, embedding_length, feed_forward_length or attention.head_count.
C15_StrictKeys ==
    Extracted /\ VocabResolves /\ ContextResolves =>
        IF Unresolved = {}
        THEN /\ result.st = "ok"
             /\ \A k \in 1..Len(StrictFields) :
                   result.val[StrictFields[k].field]
                       = Narrowed(Prefix \o StrictFields[k].suffix)
        ELSE \E k \in Unresolved :
                /\ \A j \in Unresolved : k <= j
                /\ ConfigError(StrictFields[k].named)

\* C15 as stated: with every other required field resolved, an absent key
\* fails with the config error naming the field itself, attention_head_count
\* for the fourth.
C15_AsClaimed ==
    Extracted /\ VocabResolves /\ ContextResolves =>
        \A k \in 1..Len(StrictFields) :
            /\ ~Has(Prefix \o StrictFields[k].suffix)
            /\ Unresolved = {k}
            => ConfigError(StrictFields[k].field)

\* Only llama.attention.head_count is missing, and the error names
\* attention.head_count.
C15_Witness ==
    /\ Extracted
    /\ VocabResolves
    /\ ContextResolves
    /\ Unresolved = {4}
    /\ ~Has("llama.attention.head_count")
    /\ ConfigError("attention.head_count")

\* What an optional accessor gives for key k.
OptU32(k) == IF Coerces(k) THEN Some(Narrowed(k)) ELSE Absent
OptF32(k) == IF Has(k) /\ data[k].type = "Float32" THEN Some(data[k].v) ELSE Absent
OptString(k) == IF IsString(k) THEN Some(data[k].v) ELSE Absent

\* C16: once architecture and the six required fields resolve, extraction
\* succeeds whatever the optional keys hold; an optional field is empty when
\* its key is absent or holds a variant that does not coerce, and the coerced
\* value otherwise; tokens, scores and token_type are empty in every config.
C16_OptionalsNeverFail ==
    /\ Extracted /\ VocabResolves /\ ContextResolves /\ Unresolved = {} =>
        /\ result.st = "ok"
        /\ result.val.attention_head_count_kv
              = OptU32(Prefix \o "attention.head_count_kv")
        /\ result.val.attention_layer_norm_rms_epsilon
              = OptF32(Prefix \o "attention.layer_norm_rms_epsilon")
        /\ result.val.rope_dimension_count = OptU32(Prefix \o "rope.dimension_count")
        /\ result.val.rope_freq_base = OptF32(Prefix \o "rope.freq_base")
        /\ result.val.rope_scaling_type = OptString(Prefix \o "rope.scaling.type")
        /\ result.val.tokenizer_ggml_model = OptString("tokenizer.ggml.model")
        /\ result.val.tokenizer_chat_template = OptString("tokenizer.chat_template")
        /\ result.val.general_name = OptString("general.name")
        /\ result.val.general_description = OptString("general.description")
        /\ result.val.general_license = OptString("general.license")
    /\ pc = "done" /\ result.st = "ok" =>
        /\ result.val.tokenizer_ggml_tokens = Absent
        /\ result.val.tokenizer_ggml_scores = Absent
        /\ result.val.tokenizer_ggml_token_type = Absent

\* A config built from a store whose head_count_kv is a u64 above 2^32 and
\* whose general.name is not a string, with a token array and scores stored.
C16_Witness ==
    /\ Extracted
    /\ result.st = "ok"
    /\ Has("llama.attention.head_count_kv")
    /\ data["llama.attention.head_count_kv"].type = "Uint64"
    /\ result.val.attention_head_count_kv = Some(<<0, 0, 0, 5>>)
    /\ Has("general.name")
    /\ ~IsString("general.name")
    /\ result.val.general_name = Absent
    /\ IsArray("tokenizer.ggml.tokens")
    /\ result.val.tokenizer_ggml_tokens = Absent

\* C19: the required fields are resolved in the order architecture,
\* vocab_size, context_length, block_count, embedding_length,
\* feed_forward_length, attention_head_count, and the error returned is the
\* one of the earliest field that does not resolve: the lookup error for
\* general.architecture when that key is absent, whatever else is stored;
\* a store in which all seven resolve yields a config.
C19_FirstFailureInOrder ==
    pc = "done" =>
        IF ~Has("general.architecture")
        THEN /\ result.st = "err"
             /\ result.err.kind = "MetadataKeyNotFound"
             /\ result.err.key = "general.architecture"
        ELSE IF ~IsString("general.architecture")
        THEN /\ result.st = "err"
             /\ result.err.kind = "InvalidMetadataValueType"
        ELSE IF ~VocabResolves THEN ConfigError("vocab_size")
        ELSE IF ~ContextResolves THEN ConfigError("context_length")
        ELSE IF Unresolved # {}
        THEN \E k \in Unresolved :
                /\ \A j \in Unresolved : k <= j
                /\ ConfigError(StrictFields[k].named)
        ELSE result.st = "ok"

\* Neither vocab_size nor block_count resolves, and the error is the one of
\* vocab_size.
C19_Witness ==
    /\ Extracted
    /\ ~VocabResolves
    /\ 1 \in Unresolved
    /\ ConfigError("vocab_size")

-----------------------------------------------------------------------------
(* GgufFile::quantization_types                                            *)

\* Ord for QuantizationType: by discriminant.
cmp_less(a, b) == QuantizationType[a] < QuantizationType[b]

\* The place of x in a sorted list, after the elements not greater than x.
RECURSIVE insert(_, _)
insert(sorted, x) ==
    IF sorted = <<>> THEN <<x>>
    ELSE IF cmp_less(x, Head(sorted)) THEN <<x>> \o sorted
    ELSE <<Head(sorted)>> \o insert(Tail(sorted), x)

\* Vec::sort (stable)
RECURSIVE sort(_)
sort(types) ==
    IF types = <<>> THEN <<>>
    ELSE insert(sort(SubSeq(types, 1, Len(types) - 1)), types[Len(types)])

\* Vec::dedup: drops each element equal to the one before it.
RECURSIVE dedup(_)
dedup(types) ==
    IF Len(types) <= 1 THEN types
    ELSE LET rest == dedup(Tail(types)) IN
         IF Head(types) = Head(rest) THEN rest ELSE <<Head(types)>> \o rest

\* quantization_types without the sort.
quantization_types_unsorted(ts) ==
    dedup([k \in 1..Len(ts) |-> ts[k].quantization_type])

\* GgufFile::quantization_types
quantization_types(ts) ==
    dedup(sort([k \in 1..Len(ts) |-> ts[k].quantization_type]))

MaxListed == 3

\* Variants on both sides of the gap in the codes, first and last included.
VariantSamples == {"F32", "F16", "Q4_1", "Q5_0", "Q8_K", "IQ2_XXS", "F64", "IQ1_M"}

TensorOfType(q) ==
    [name |-> <<119>>, dimensions |-> <<Num(2, 8)>>, quantization_type |-> q,
     offset |-> Num(0, 8)]

InitTypes ==
    /\ \E qs \in SeqsUpTo(VariantSamples, MaxListed) :
          tensors = [k \in 1..Len(qs) |-> TensorOfType(qs[k])]
    /\ pc = "types"
    /\ result = None
    /\ query = ""
    /\ accessor = "none"
    /\ bytes = <<>>
    /\ pos = 0
    /\ i = 0
    /\ header = NoHeader
    /\ data = <<>>
    /\ vt = "none"
    /\ raw = <<>>
    /\ extents = <<>>
    /\ overflow_checks = FALSE
    /\ element_count = <<>>

\* file.quantization_types()
ListTypes ==
    /\ pc = "types"
    /\ result' = quantization_types(tensors)
    /\ pc' = "done"
    /\ UNCHANGED <<bytes, pos, vt, lookupVars, fileVars, tensors, tensorVars>>

NextTypes == ListTypes

SpecTypes == InitTypes /\ [][NextTypes]_vars

\* C17: the list returned by quantization_types is strictly increasing by
\* code, its codes are exactly the codes the tensors use, and it is empty
\* when there are no tensors.
C17_SortedDistinctCodes ==
    pc = "done" =>
        /\ \A j \in 1..(Len(result) - 1) :
              QuantizationType[result[j]] < QuantizationType[result[j + 1]]
        /\ {QuantizationType[result[j]] : j \in 1..Len(result)}
              = {QuantizationType[tensors[k].quantization_type] : k \in 1..Len(tensors)}
        /\ tensors = <<>> => result = <<>>

\* Three tensors of types IQ1_M, F32, IQ1_M listed as F32, IQ1_M.
C17_Witness ==
    /\ pc = "done"
    /\ Len(tensors) = 3
    /\ tensors[1].quantization_type = "IQ1_M"
    /\ tensors[2].quantization_type = "F32"
    /\ tensors[3].quantization_type = "IQ1_M"
    /\ result = <<"F32", "IQ1_M">>

-----------------------------------------------------------------------------
(* TensorInfo::layer_number                                                *)

\* "layers.", "blocks." and "." as bytes.
LAYERS == <<108, 97, 121, 101, 114, 115, 46>>
BLOCKS == <<98, 108, 111, 99, 107, 115, 46>>
DOT == <<46>>

\* pat occurs in s at byte offset p.
matches_at(s, pat, p) ==
    /\ p + Len(pat) <= Len(s)
    /\ \A j \in 1..Len(pat) : s[p + j] = pat[j]

\* str::find: the byte offset of the first occurrence.
find(s, pat) ==
    LET found == {p \in 0..Len(s) : matches_at(s, pat, p)} IN
    IF found = {} THEN Absent
    ELSE Some(CHOOSE p \in found : \A q \in found : p <= q)

\* s[from..to]
slice(s, from, to) == SubSeq(s, from + 1, to)

IsDigit(c) == c \in 48..57

\* The digits of str::parse::<u32> accumulated into a u32 numeral with
\* checked_mul and checked_add.
RECURSIVE parse_digits(_, _)
parse_digits(digits, acc) ==
    IF digits = <<>> THEN Good(acc)
    ELSE IF ~IsDigit(Head(digits)) THEN Bad("InvalidDigit")
    ELSE LET times10 == Mul(acc, <<10>>)
             plus == Add(times10, Num(Head(digits) - 48, 5))
         IN  IF times10[1] # 0 \/ plus[1] # 0 THEN Bad("PosOverflow")
             ELSE parse_digits(Tail(digits), Tail(plus))

\* str::parse::<u32>: an optional '+' and at least one decimal digit.
parse_u32(src) ==
    IF src = <<>> THEN Bad("Empty")
    ELSE LET digits == IF src[1] = 43 THEN Tail(src) ELSE src IN
         IF digits = <<>> THEN Bad("InvalidDigit")
         ELSE parse_digits(digits, Num(0, 4))

\* One arm of layer_number: the number between the first occurrence of
\* prefix and the next dot.
number_after(name, prefix) ==
    LET prefix_pos == find(name, prefix) IN
    IF prefix_pos.st # "some" THEN Absent
    ELSE LET start == prefix_pos.val + 7
             dot_pos == find(slice(name, start, Len(name)), DOT)
         IN  IF dot_pos.st # "some" THEN Absent
             ELSE ok(parse_u32(slice(name, start, start + dot_pos.val)))

\* TensorInfo::layer_number
layer_number(self) ==
    LET layers == number_after(self.name, LAYERS) IN
    IF layers.st = "some" THEN layers
    ELSE number_after(self.name, BLOCKS)

\* Pieces of tensor names: the two prefixes, digits, a dot, a sign, letters
\* and a number above the u32 range.
NamePieces ==
    { LAYERS, BLOCKS, <<49>>, <<53>>, DOT, <<120>>, <<43>>, <<119>>,
      <<52, 50, 57, 52, 57, 54, 55, 50, 57, 54>> }

MaxPieces == 4

TensorNamed(n) ==
    [name |-> n, dimensions |-> <<Num(2, 8)>>, quantization_type |-> "F32",
     offset |-> Num(0, 8)]

InitLayer ==
    /\ \E ps \in SeqsUpTo(NamePieces, MaxPieces) : tensors = <<TensorNamed(Flatten(ps))>>
    /\ pc = "layer"
    /\ result = None
    /\ query = ""
    /\ accessor = "none"
    /\ bytes = <<>>
    /\ pos = 0
    /\ i = 0
    /\ header = NoHeader
    /\ data = <<>>
    /\ vt = "none"
    /\ raw = <<>>
    /\ extents = <<>>
    /\ overflow_checks = FALSE
    /\ element_count = <<>>

\* tensor.layer_number()
LayerNumber ==
    /\ pc = "layer"
    /\ result' = layer_number(tensors[1])
    /\ pc' = "done"
    /\ UNCHANGED <<bytes, pos, vt, lookupVars, fileVars, tensors, tensorVars>>

NextLayer == LayerNumber

SpecLayer == InitLayer /\ [][NextLayer]_vars

\* The numbers N of the segments prefix<N>. of a name, N being text that
\* parses as a u32.
SegmentNumbers(name, prefix) ==
    { parse_u32(slice(name, pe[1] + 7, pe[2])).val :
        pe \in { qe \in (0..Len(name)) \X (0..Len(name)) :
                   /\ matches_at(name, prefix, qe[1])
                   /\ qe[1] + 7 <= qe[2]
                   /\ matches_at(name, DOT, qe[2])
                   /\ parse_u32(slice(name, qe[1] + 7, qe[2])).st = "ok" } }

\* C18: layer_number returns N whenever the name contains layers.<N>. or
\* blocks.<N>. with N parsing as a u32, the number after layers. when both
\* occur, and nothing when no such segment occurs.
C18_LayerNumber ==
    pc = "done" =>
        LET name == tensors[1].name IN
        IF SegmentNumbers(name, LAYERS) # {}
        THEN result.st = "some" /\ result.val \in SegmentNumbers(name, LAYERS)
        ELSE IF SegmentNumbers(name, BLOCKS) # {}
        THEN result.st = "some" /\ result.val \in SegmentNumbers(name, BLOCKS)
        ELSE result = Absent

====
